---- MODULE Spec2Model ----
(***************************************************************************)
(* A model of the AXIS compiler backend: the x86-64 assembler with jump    *)
(* relaxation (src/tets.py) and the code generator                         *)
(* (src/code_generator.py).                                                *)
(*                                                                         *)
(* The assembler reads an instruction stream.  A line of the stream is a   *)
(* record: a label definition, or an instruction with its operands already *)
(* split (the result of re.split in Assembler.assemble).  A line carries a *)
(* repetition count `rep`: the line stands for `rep` consecutive copies of *)
(* itself, so that a run of 125 nop lines is one element of the sequence.  *)
(* Python integers are unbounded; immediates are therefore signed          *)
(* magnitudes in base 256, least significant byte first.                   *)
(***************************************************************************)
EXTENDS Integers, Sequences, FiniteSets, TLC

VARIABLES
    lines,               \* assemble_code: the stripped lines of `code`
    enable_relaxation,   \* assemble_code: the flag argument
    pc,                  \* position inside assemble_code
    labels,              \* Assembler.labels
    current_address,     \* Assembler.current_address
    current_instr_index, \* Assembler.current_instr_index
    jump_forms,          \* Assembler.jump_forms
    iteration,           \* number of relaxation iterations completed
    converged,           \* the relaxation loop left through `break`
    warnings,            \* duplicate-label / non-convergence warnings printed
    bytecodes,           \* _generate_code: the `bytecode` of every line, in order
    diagnostics,         \* _generate_code: line numbers of the "Fehler Zeile" messages
    machine_code,        \* the list assemble_code returns, in chunks (see Extend)
    bytecode_relax,      \* main: the result of the call with relaxation, kept
                         \* while the same code is assembled without relaxation
    instruction,         \* main, interactive mode: the line given to assemble
    bytecode,            \* main, interactive mode: what assemble returned
    assembled,           \* main, interactive mode: assemble has returned
    asm_lines,           \* CodeGenerator.asm_lines
    label_counter,       \* CodeGenerator.label_counter
    current_function,    \* CodeGenerator.current_function (its name, "" for None)
    loop_stack,          \* CodeGenerator.loop_stack
    program,             \* the argument of the compile call in progress or last made
    gen_pc,              \* position of the generator: idle, inside compile, returned, raised
    error,               \* the exception compile raised, "" when none
    compiles             \* number of compile calls made on the instance

asmVars == <<lines, enable_relaxation, pc, labels, current_address,
             current_instr_index, jump_forms, iteration, converged, warnings,
             bytecodes, diagnostics, machine_code, bytecode_relax>>

encVars == <<instruction, bytecode, assembled>>

genVars == <<asm_lines, label_counter, current_function, loop_stack, program,
             gen_pc, error, compiles>>

vars == <<asmVars, encVars, genVars>>

-----------------------------------------------------------------------------
(* Sequences and small helpers *)

RECURSIVE Repeat(_, _)
Repeat(s, n) == IF n <= 0 THEN <<>> ELSE s \o Repeat(s, n - 1)

Range(s) == {s[i] : i \in DOMAIN s}

-----------------------------------------------------------------------------
(* Python results: None, or a list of bytes *)

None == [ok |-> FALSE, bytes |-> <<>>]
Some(b) == [ok |-> TRUE, bytes |-> b]

\* Python truthiness of a result: neither None nor the empty list
Truthy(r) == r.ok /\ r.bytes # <<>>

\* `x or []`
OrEmpty(r) == IF Truthy(r) THEN r ELSE Some(<<>>)

-----------------------------------------------------------------------------
(* Unbounded integers: sign and magnitude, base 256, little endian,        *)
(* no leading zero byte; zero is the empty magnitude with neg = FALSE.     *)

Big(neg, mag) == [neg |-> neg, mag |-> mag]

Zeros(n) == Repeat(<<0>>, n)
Ones(n) == Repeat(<<255>>, n)

RECURSIVE MagCmpFrom(_, _, _)
MagCmpFrom(a, b, i) ==
    IF i = 0 THEN 0
    ELSE IF a[i] < b[i] THEN -1
    ELSE IF a[i] > b[i] THEN 1
    ELSE MagCmpFrom(a, b, i - 1)

MagCmp(a, b) ==
    IF Len(a) < Len(b) THEN -1
    ELSE IF Len(a) > Len(b) THEN 1
    ELSE MagCmpFrom(a, b, Len(a))

\* x <= y on unbounded integers
BigLe(x, y) ==
    IF x.neg /\ ~y.neg THEN TRUE
    ELSE IF ~x.neg /\ y.neg THEN FALSE
    ELSE IF x.neg THEN MagCmp(x.mag, y.mag) >= 0
    ELSE MagCmp(x.mag, y.mag) <= 0

BigBetween(lo, x, hi) == BigLe(lo, x) /\ BigLe(x, hi)

\* 2^(8n-1) as a magnitude
HalfMag(n) == Zeros(n - 1) \o <<128>>

Pad(mag, n) == mag \o Zeros(n - Len(mag))

RECURSIVE AddOne(_)
AddOne(bs) ==
    IF bs = <<>> THEN <<>>
    ELSE IF bs[1] = 255 THEN <<0>> \o AddOne(Tail(bs))
    ELSE <<bs[1] + 1>> \o Tail(bs)

Invert(bs) == [i \in DOMAIN bs |-> 255 - bs[i]]

\* int.to_bytes(n, 'little', signed=True): None stands for OverflowError
ToBytesSigned(x, n) ==
    IF x.neg
    THEN IF MagCmp(x.mag, HalfMag(n)) <= 0
         THEN Some(AddOne(Invert(Pad(x.mag, n))))
         ELSE None
    ELSE IF MagCmp(x.mag, HalfMag(n)) < 0
         THEN Some(Pad(x.mag, n))
         ELSE None

\* x & 0xFF
LowByte(x) ==
    LET low == IF x.mag = <<>> THEN 0 ELSE x.mag[1]
    IN  IF x.neg THEN (256 - low) % 256 ELSE low

\* a machine-sized Python int (an address or a displacement) as an unbounded one
RECURSIVE NatMag(_)
NatMag(n) == IF n = 0 THEN <<>> ELSE <<n % 256>> \o NatMag(n \div 256)

FromInt(n) == IF n < 0 THEN Big(TRUE, NatMag(-n)) ELSE Big(FALSE, NatMag(n))

\* the value a little-endian two's complement byte string encodes
RECURSIVE UnsignedValue(_)
UnsignedValue(bs) ==
    IF bs = <<>> THEN 0 ELSE bs[1] + 256 * UnsignedValue(Tail(bs))

SignedValue(bs) ==
    IF bs[Len(bs)] >= 128
    THEN - (UnsignedValue(AddOne(Invert(bs))))
    ELSE UnsignedValue(bs)

-----------------------------------------------------------------------------
(* Register tables *)

reg8 == [al |-> 0, cl |-> 1, dl |-> 2, bl |-> 3, ah |-> 4, ch |-> 5, dh |-> 6, bh |-> 7]

reg8_rex == [spl |-> 4, bpl |-> 5, sil |-> 6, dil |-> 7, r8b |-> 8, r9b |-> 9,
             r10b |-> 10, r11b |-> 11, r12b |-> 12, r13b |-> 13, r14b |-> 14,
             r15b |-> 15]

reg16 == [ax |-> 0, cx |-> 1, dx |-> 2, bx |-> 3, sp |-> 4, bp |-> 5, si |-> 6,
          di |-> 7, r8w |-> 8, r9w |-> 9, r10w |-> 10, r11w |-> 11, r12w |-> 12,
          r13w |-> 13, r14w |-> 14, r15w |-> 15]

reg32 == [eax |-> 0, ecx |-> 1, edx |-> 2, ebx |-> 3, esp |-> 4, ebp |-> 5,
          esi |-> 6, edi |-> 7, r8d |-> 8, r9d |-> 9, r10d |-> 10, r11d |-> 11,
          r12d |-> 12, r13d |-> 13, r14d |-> 14, r15d |-> 15]

reg64 == [rax |-> 0, rcx |-> 1, rdx |-> 2, rbx |-> 3, rsp |-> 4, rbp |-> 5,
          rsi |-> 6, rdi |-> 7, r8 |-> 8, r9 |-> 9, r10 |-> 10, r11 |-> 11,
          r12 |-> 12, r13 |-> 13, r14 |-> 14, r15 |-> 15]

NoReg == [num |-> -1, type |-> "none"]

\* get_reg_num: (number, RegisterType), or (None, None)
get_reg_num(reg) ==
    IF reg \in DOMAIN reg8 THEN [num |-> reg8[reg], type |-> "REG_8"]
    ELSE IF reg \in DOMAIN reg8_rex THEN [num |-> reg8_rex[reg], type |-> "REG_8"]
    ELSE IF reg \in DOMAIN reg16 THEN [num |-> reg16[reg], type |-> "REG_16"]
    ELSE IF reg \in DOMAIN reg32 THEN [num |-> reg32[reg], type |-> "REG_32"]
    ELSE IF reg \in DOMAIN reg64 THEN [num |-> reg64[reg], type |-> "REG_64"]
    ELSE NoReg

is_high_byte_reg(reg) == reg \in {"ah", "ch", "dh", "bh"}

validate_8bit_regs(reg1, reg2) ==
    LET has_high_byte == is_high_byte_reg(reg1) \/ is_high_byte_reg(reg2)
        has_rex_reg == reg1 \in DOMAIN reg8_rex \/ reg2 \in DOMAIN reg8_rex
    IN  ~(has_high_byte /\ has_rex_reg)

\* validate_immediate_size
validate_immediate_size(value, bits) ==
    IF bits = 8 THEN BigBetween(Big(TRUE, <<128>>), value, Big(FALSE, <<255>>))
    ELSE IF bits = 16
        THEN BigBetween(Big(TRUE, <<0, 128>>), value, Big(FALSE, <<255, 255>>))
    ELSE IF bits = 32
        THEN BigBetween(Big(TRUE, <<0, 0, 0, 128>>), value,
                        Big(FALSE, <<255, 255, 255, 255>>))
    ELSE IF bits = 64
        THEN BigBetween(Big(TRUE, <<0, 0, 0, 0, 0, 0, 0, 128>>), value,
                        Big(FALSE, <<255, 255, 255, 255, 255, 255, 255, 255>>))
    ELSE FALSE

encode_modrm(mod, reg, rm) == (mod % 4) * 64 + (reg % 8) * 8 + (rm % 8)

Bit(b) == IF b THEN 1 ELSE 0

build_rex(w, r, x, b) == 64 + w * 8 + r * 4 + x * 2 + b

-----------------------------------------------------------------------------
(* Operands and lines *)

Reg(name) == [t |-> "reg", name |-> name, val |-> Big(FALSE, <<>>)]
\* a size keyword (byte, word, dword, qword) and a memory operand [base+disp]
Kw(name) == [t |-> "kw", name |-> name, val |-> Big(FALSE, <<>>)]
Mem(base, disp) == [t |-> "mem", name |-> base, val |-> disp]
Imm(val) == [t |-> "imm", name |-> "", val |-> val]
Sym(name) == [t |-> "sym", name |-> name, val |-> Big(FALSE, <<>>)]

\* is_immediate: the operand text parses as a number
is_immediate(operand) == operand.t = "imm"

LabelLine(name) == [kind |-> "label", op |-> name, args |-> <<>>, rep |-> 1]
Instr(op, args) == [kind |-> "instr", op |-> op, args |-> args, rep |-> 1]
Run(op, args, n) == [kind |-> "instr", op |-> op, args |-> args, rep |-> n]
BlankLine == [kind |-> "blank", op |-> "", args |-> <<>>, rep |-> 1]

-----------------------------------------------------------------------------
(* The encoders.  Each takes the assembler fields it reads as parameters:  *)
(* lbls = self.labels, forms = self.jump_forms, addr = self.current_address,*)
(* idx = self.current_instr_index.                                         *)

\* str.lower() on the label names the streams use
Lower(name) == IF name = "End" THEN "end" ELSE name

singles == [ret |-> <<195>>, nop |-> <<144>>, int3 |-> <<204>>,
            syscall |-> <<15, 5>>, leave |-> <<201>>, pushf |-> <<156>>,
            popf |-> <<157>>, cdq |-> <<153>>, cqo |-> <<72, 153>>]

\* assemble_single
assemble_single(operation) ==
    IF operation \in DOMAIN singles THEN Some(singles[operation]) ELSE None

\* assemble_push_pop
assemble_push_pop(operation, operand) ==
    LET r == get_reg_num(operand.name)
        base == IF operation = "push" THEN 80 ELSE 88
    IN  IF r = NoReg THEN Some(<<>>)
        ELSE IF r.type = "REG_8" THEN None
        ELSE IF r.num >= 8 THEN Some(<<65, base + (r.num % 8)>>)
        ELSE Some(<<base + (r.num % 8)>>)

\* assemble_inc_dec
assemble_inc_dec(operation, operand) ==
    LET r == get_reg_num(operand.name)
        op == IF operation = "inc" THEN 192 ELSE 200
    IN  IF r = NoReg THEN None
        ELSE IF r.type = "REG_32"
            THEN IF r.num >= 8 THEN Some(<<65, 255, op + (r.num % 8)>>)
                 ELSE Some(<<255, op + (r.num % 8)>>)
        ELSE IF r.type = "REG_64"
            THEN Some(<<build_rex(1, 0, 0, Bit(r.num >= 8)), 255, op + (r.num % 8)>>)
        ELSE Some(<<>>)

\* opcode + rel32, or None on OverflowError
WithRel32(prefix, offset) ==
    LET b == ToBytesSigned(FromInt(offset), 4)
    IN  IF b.ok THEN Some(prefix \o b.bytes) ELSE None

\* a lookup that takes a jump without an entry for short
FormAt_short(forms, idx) == IF idx \in DOMAIN forms THEN forms[idx] ELSE "short"

\* jump_forms.get(current_instr_index, 'near')
FormAt(forms, idx) == IF idx \in DOMAIN forms THEN forms[idx] ELSE "near"

\* a near jump whose displacement is counted from the start of the jump
assemble_jmp_call_from_start(operation, target, lbls, forms, addr, idx) ==
    LET form == IF operation = "call" THEN "near" ELSE FormAt(forms, idx)
    IN  IF is_immediate(target)
        THEN LET b == ToBytesSigned(target.val, 4)
             IN  IF operation = "jmp"
                 THEN IF BigBetween(FromInt(-128), target.val, FromInt(127))
                      THEN Some(<<235, LowByte(target.val)>>)
                      ELSE IF b.ok THEN Some(<<233>> \o b.bytes) ELSE None
                 ELSE IF b.ok THEN Some(<<232>> \o b.bytes) ELSE None
        ELSE IF target.name \in DOMAIN lbls
        THEN IF operation = "jmp"
             THEN IF form = "short"
                  THEN LET offset == lbls[target.name] - (addr + 2)
                       IN  IF ~(-128 <= offset /\ offset <= 127) THEN None
                           ELSE Some(<<235, offset % 256>>)
                  ELSE WithRel32(<<233>>, lbls[target.name] - addr)
             ELSE WithRel32(<<232>>, lbls[target.name] - addr)
        ELSE IF operation = "jmp" THEN Some(<<233, 0, 0, 0, 0>>)
             ELSE Some(<<232, 0, 0, 0, 0>>)

\* assemble_jmp_call with force_form = None, as assemble calls it
assemble_jmp_call(operation, target, lbls, forms, addr, idx) ==
    LET form == IF operation = "call" THEN "near" ELSE FormAt(forms, idx)
    IN  IF is_immediate(target)
        THEN LET b == ToBytesSigned(target.val, 4)
             IN  IF operation = "jmp"
                 THEN IF BigBetween(FromInt(-128), target.val, FromInt(127))
                      THEN Some(<<235, LowByte(target.val)>>)
                      ELSE IF b.ok THEN Some(<<233>> \o b.bytes) ELSE None
                 ELSE IF b.ok THEN Some(<<232>> \o b.bytes) ELSE None
        ELSE IF target.name \in DOMAIN lbls
        THEN IF operation = "jmp"
             THEN IF form = "short"
                  THEN LET offset == lbls[target.name] - (addr + 2)
                       IN  IF ~(-128 <= offset /\ offset <= 127) THEN None
                           ELSE Some(<<235, offset % 256>>)
                  ELSE WithRel32(<<233>>, lbls[target.name] - (addr + 5))
             ELSE WithRel32(<<232>>, lbls[target.name] - (addr + 5))
        ELSE IF operation = "jmp" THEN Some(<<233, 0, 0, 0, 0>>)
             ELSE Some(<<232, 0, 0, 0, 0>>)

jmp_codes == [je |-> 132, jz |-> 132, jne |-> 133, jnz |-> 133,
              jl |-> 140, jnge |-> 140, jle |-> 142, jng |-> 142,
              jg |-> 143, jnle |-> 143, jge |-> 141, jnl |-> 141,
              ja |-> 135, jnbe |-> 135, jae |-> 131, jnb |-> 131,
              jb |-> 130, jnae |-> 130, jbe |-> 134, jna |-> 134]

\* assemble_conditional_jmp with force_form = None
assemble_conditional_jmp(operation, target, lbls, forms, addr, idx) ==
    IF operation \notin DOMAIN jmp_codes THEN None
    ELSE LET opcode == jmp_codes[operation]
             form == FormAt(forms, idx)
         IN  IF is_immediate(target)
             THEN IF BigBetween(FromInt(-128), target.val, FromInt(127))
                  THEN Some(<<opcode - 16, LowByte(target.val)>>)
                  ELSE LET b == ToBytesSigned(target.val, 4)
                       IN  IF b.ok THEN Some(<<15, opcode>> \o b.bytes) ELSE None
             ELSE IF target.name \in DOMAIN lbls
             THEN IF form = "short"
                  THEN LET offset == lbls[target.name] - (addr + 2)
                       IN  IF ~(-128 <= offset /\ offset <= 127) THEN None
                           ELSE Some(<<opcode - 16, offset % 256>>)
                  ELSE WithRel32(<<15, opcode>>, lbls[target.name] - (addr + 6))
             ELSE Some(<<15, opcode, 0, 0, 0, 0>>)

\* the `mov reg, imm` branch of assemble_mov, dest a register
mov_reg_imm(dest, r, imm) ==
    IF r.type = "REG_32"
    THEN LET b == ToBytesSigned(imm, 4)
         IN  IF ~validate_immediate_size(imm, 32) THEN None
             ELSE IF ~b.ok THEN None
             ELSE IF r.num >= 8 THEN Some(<<65, 184 + (r.num % 8)>> \o b.bytes)
             ELSE Some(<<184 + (r.num % 8)>> \o b.bytes)
    ELSE IF r.type = "REG_64"
    THEN LET b == ToBytesSigned(imm, 8)
         IN  IF ~validate_immediate_size(imm, 64) THEN None
             ELSE IF ~b.ok THEN None
             ELSE Some(<<build_rex(1, 0, 0, Bit(r.num >= 8)), 184 + (r.num % 8)>>
                       \o b.bytes)
    ELSE IF r.type = "REG_16"
    THEN LET b == ToBytesSigned(imm, 2)
         IN  IF ~validate_immediate_size(imm, 16) THEN None
             ELSE IF ~b.ok THEN None
             ELSE IF r.num >= 8 THEN Some(<<102, 65, 184 + (r.num % 8)>> \o b.bytes)
             ELSE Some(<<102, 184 + (r.num % 8)>> \o b.bytes)
    ELSE \* REG_8
         IF ~validate_immediate_size(imm, 8) THEN None
         ELSE IF r.num >= 8 \/ dest \in DOMAIN reg8_rex
         THEN IF is_high_byte_reg(dest) THEN None
              ELSE Some(<<build_rex(0, 0, 0, Bit(r.num >= 8)), 176 + (r.num % 8),
                          LowByte(imm)>>)
         ELSE Some(<<176 + r.num, LowByte(imm)>>)

\* the `mov reg, reg` branch of assemble_mov
mov_reg_reg(dest, src, d, s) ==
    LET modrm == encode_modrm(3, s.num % 8, d.num % 8)
        rex0 == build_rex(0, Bit(s.num >= 8), 0, Bit(d.num >= 8))
        ext == d.num >= 8 \/ s.num >= 8
    IN  IF d.type = "REG_32"
        THEN IF ext THEN Some(<<rex0, 137, modrm>>) ELSE Some(<<137, modrm>>)
        ELSE IF d.type = "REG_64"
        THEN Some(<<build_rex(1, Bit(s.num >= 8), 0, Bit(d.num >= 8)), 137, modrm>>)
        ELSE IF d.type = "REG_16"
        THEN IF ext THEN Some(<<102, rex0, 137, modrm>>) ELSE Some(<<102, 137, modrm>>)
        ELSE IF ~validate_8bit_regs(dest, src) THEN None
        ELSE IF ext \/ dest \in DOMAIN reg8_rex \/ src \in DOMAIN reg8_rex
        THEN Some(<<rex0, 136, modrm>>)
        ELSE Some(<<136, modrm>>)

\* the `mov reg, [rbp+disp]` and `mov [rbp+disp], reg` branches of
\* assemble_mov: r is the register, opcode 8B or 89; a register of 8 or 16
\* bits leaves the list empty.  The displacements of the lines assembled
\* fit 32 bits, where to_bytes does not raise.
mov_mem(r, mem, opcode) ==
    LET use_disp8 == BigBetween(FromInt(-128), mem.val, FromInt(127))
        modrm == encode_modrm(IF use_disp8 THEN 1 ELSE 2, r.num % 8, 5)
        b4 == ToBytesSigned(mem.val, 4)
        disp == IF use_disp8 THEN <<LowByte(mem.val)>> ELSE b4.bytes
    IN  IF mem.name # "rbp" \/ r = NoReg \/ (~use_disp8 /\ ~b4.ok) THEN None
        ELSE IF r.type = "REG_32"
        THEN Some((IF r.num >= 8 THEN <<65>> ELSE <<>>) \o <<opcode, modrm>> \o disp)
        ELSE IF r.type = "REG_64"
        THEN Some(<<build_rex(1, Bit(r.num >= 8), 0, 0), opcode, modrm>> \o disp)
        ELSE Some(<<>>)

\* assemble_mov
assemble_mov(dest, src) ==
    LET d == get_reg_num(dest.name)
        s == get_reg_num(src.name)
    IN  IF src.t = "mem" THEN mov_mem(d, src, 139)
        ELSE IF dest.t = "mem" THEN mov_mem(s, dest, 137)
        ELSE IF d # NoReg /\ is_immediate(src) THEN mov_reg_imm(dest.name, d, src.val)
        ELSE IF d # NoReg /\ s # NoReg /\ d.type = s.type
        THEN mov_reg_reg(dest.name, src.name, d, s)
        ELSE None

alu_ops == [add |-> 0, or |-> 1, and |-> 4, sub |-> 5, xor |-> 6, cmp |-> 7]

\* assemble_alu
assemble_alu(operation, dest, src) ==
    LET op_code == alu_ops[operation]
        d == get_reg_num(dest.name)
        s == IF is_immediate(src) THEN NoReg ELSE get_reg_num(src.name)
        imm == src.val
        fits8 == BigBetween(FromInt(-128), imm, FromInt(127))
        b4 == ToBytesSigned(imm, 4)
    IN  IF operation \notin DOMAIN alu_ops THEN None
        ELSE IF d # NoReg /\ s # NoReg /\ d.type = s.type
        THEN LET modrm == encode_modrm(3, s.num % 8, d.num % 8)
             IN  IF d.type = "REG_32"
                 THEN IF d.num >= 8 \/ s.num >= 8
                      THEN Some(<<build_rex(0, Bit(s.num >= 8), 0, Bit(d.num >= 8)),
                                  1 + op_code * 8, modrm>>)
                      ELSE Some(<<1 + op_code * 8, modrm>>)
                 ELSE IF d.type = "REG_64"
                 THEN Some(<<build_rex(1, Bit(s.num >= 8), 0, Bit(d.num >= 8)),
                             1 + op_code * 8, modrm>>)
                 ELSE Some(<<>>)
        ELSE IF d # NoReg /\ is_immediate(src)
        THEN LET modrm == encode_modrm(3, op_code, d.num % 8)
             IN  IF d.type = "REG_32"
                 THEN IF fits8
                      THEN IF d.num >= 8 THEN Some(<<65, 131, modrm, LowByte(imm)>>)
                           ELSE Some(<<131, modrm, LowByte(imm)>>)
                      ELSE IF ~validate_immediate_size(imm, 32) THEN None
                      ELSE IF ~b4.ok THEN None
                      ELSE IF d.num >= 8 THEN Some(<<65, 129, modrm>> \o b4.bytes)
                      ELSE Some(<<129, modrm>> \o b4.bytes)
                 ELSE IF d.type = "REG_64"
                 THEN LET rex == build_rex(1, 0, 0, Bit(d.num >= 8))
                      IN  IF fits8 THEN Some(<<rex, 131, modrm, LowByte(imm)>>)
                          ELSE IF ~BigBetween(Big(TRUE, <<0, 0, 0, 128>>), imm,
                                              Big(FALSE, <<255, 255, 255, 127>>))
                          THEN None
                          ELSE IF ~b4.ok THEN None
                          ELSE Some(<<rex, 129, modrm>> \o b4.bytes)
                 ELSE Some(<<>>)
        ELSE Some(<<>>)

\* Assembler.assemble on an instruction line (not a label, comment or blank)
assemble_instr(line, lbls, forms, addr, idx) ==
    LET operation == line.op
        nparts == Len(line.args) + 1
        single == assemble_single(operation)
        \* operands are taken from the lower-cased text
        arg(i) == [line.args[i] EXCEPT !.name = Lower(@)]
    IN  IF Truthy(single) THEN single
        ELSE IF nparts = 2 /\ operation \in {"push", "pop"}
        THEN OrEmpty(assemble_push_pop(operation, arg(1)))
        ELSE IF nparts = 2 /\ operation \in {"inc", "dec"}
        THEN OrEmpty(assemble_inc_dec(operation, arg(1)))
        ELSE IF nparts = 2 /\ operation \in {"jmp", "call"}
        THEN OrEmpty(assemble_jmp_call(operation, arg(1), lbls, forms, addr, idx))
        ELSE IF nparts = 2
                /\ Truthy(assemble_conditional_jmp(operation, arg(1), lbls, forms,
                                                   addr, idx))
        THEN assemble_conditional_jmp(operation, arg(1), lbls, forms, addr, idx)
        ELSE IF nparts = 3 /\ operation = "mov" /\ Truthy(assemble_mov(arg(1), arg(2)))
        THEN assemble_mov(arg(1), arg(2))
        ELSE IF nparts = 3 /\ operation \in DOMAIN alu_ops
                /\ Truthy(assemble_alu(operation, arg(1), arg(2)))
        THEN assemble_alu(operation, arg(1), arg(2))
        ELSE None

-----------------------------------------------------------------------------
(* The passes of assemble_code.  A scan carries the fields it updates in a *)
(* record s = [labels, addr, idx, ...].                                    *)

max_iterations == 10

JumpOps == {"jmp", "je", "jz", "jne", "jnz", "jl", "jle", "jg", "jge", "ja", "jae",
            "jb", "jbe", "jnge", "jng", "jnle", "jnl", "jnbe", "jnb", "jnae", "jna"}

NoLabels == [n \in {} |-> 0]
NoForms == [i \in {} |-> "near"]

Put(f, k, v) == [x \in DOMAIN f \cup {k} |-> IF x = k THEN v ELSE f[x]]

\* `if bytecode: current_address += len(bytecode); current_instr_index += 1`
Advance(s, line, b) ==
    IF Truthy(b)
    THEN [s EXCEPT !.addr = @ + line.rep * Len(b.bytes), !.idx = @ + line.rep]
    ELSE s

\* one line of pass 1
Pass1Line(s, line) ==
    IF line.kind = "blank" THEN s
    ELSE IF line.kind = "label"
    THEN IF line.op \in DOMAIN s.labels
         THEN [s EXCEPT !.warn = Append(@, "Doppeltes Label")]
         ELSE [s EXCEPT !.labels = Put(@, line.op, s.addr)]
    ELSE Advance(s, line, assemble_instr(line, s.labels, NoForms, s.addr, s.idx))

RECURSIVE Pass1Scan(_, _, _)
Pass1Scan(ls, i, s) ==
    IF i > Len(ls) THEN s ELSE Pass1Scan(ls, i + 1, Pass1Line(s, ls[i]))

\* one line of the analysis scan of a relaxation iteration: s.forms is
\* new_jump_forms, lbls and forms are self.labels and self.jump_forms
AnalyseLine(s, line, lbls, forms) ==
    IF line.kind # "instr" THEN s
    ELSE LET target == IF Len(line.args) >= 1
                       THEN [line.args[1] EXCEPT !.name = Lower(@)]
                       ELSE Sym("")
             current_form == FormAt(forms, s.idx)
             instr_len == IF current_form = "short" THEN 2
                          ELSE IF line.op = "jmp" THEN 5 ELSE 6
             offset == lbls[target.name] - (s.addr + instr_len)
             marked ==
                 IF line.op \in JumpOps /\ Len(line.args) >= 1
                    /\ ~is_immediate(target) /\ target.name \in DOMAIN lbls
                 THEN [s EXCEPT !.forms =
                          Put(@, s.idx, IF -128 <= offset /\ offset <= 127
                                        THEN "short" ELSE "near")]
                 ELSE s
         IN  Advance(marked, line, assemble_instr(line, lbls, forms, s.addr, s.idx))

RECURSIVE AnalyseScan(_, _, _, _, _)
AnalyseScan(ls, i, s, lbls, forms) ==
    IF i > Len(ls) THEN s
    ELSE AnalyseScan(ls, i + 1, AnalyseLine(s, ls[i], lbls, forms), lbls, forms)

\* one line of the label recomputation
RecomputeLine(s, line, forms) ==
    IF line.kind = "blank" THEN s
    ELSE IF line.kind = "label" THEN [s EXCEPT !.labels = Put(@, line.op, s.addr)]
    ELSE Advance(s, line, assemble_instr(line, s.labels, forms, s.addr, s.idx))

RECURSIVE RecomputeScan(_, _, _, _)
RecomputeScan(ls, i, s, forms) ==
    IF i > Len(ls) THEN s
    ELSE RecomputeScan(ls, i + 1, RecomputeLine(s, ls[i], forms), forms)

\* machine_code.extend(bytecode), for `rep` copies of the line: the list is
\* kept as chunks [bytes, rep], each standing for rep copies of bytes
Extend(code, bytes, rep) ==
    IF bytes = <<>> THEN code ELSE Append(code, [bytes |-> bytes, rep |-> rep])

\* the list of bytes a chunked list stands for, and its length
RECURSIVE Flat(_)
Flat(code) ==
    IF code = <<>> THEN <<>>
    ELSE Repeat(code[1].bytes, code[1].rep) \o Flat(Tail(code))

RECURSIVE FlatLen(_)
FlatLen(code) ==
    IF code = <<>> THEN 0
    ELSE code[1].rep * Len(code[1].bytes) + FlatLen(Tail(code))

\* Assembler.assemble as _generate_code calls it: a label line stores the
\* current address and yields [], a blank or comment line is skipped before
GenerateLine(s, line, i, forms) ==
    IF line.kind = "blank" THEN [s EXCEPT !.out = Append(@, Some(<<>>))]
    ELSE LET b == IF line.kind = "label" THEN Some(<<>>)
                  ELSE assemble_instr(line, s.labels, forms, s.addr, s.idx)
             lbls == IF line.kind = "label" THEN Put(s.labels, line.op, s.addr)
                     ELSE s.labels
         IN  IF b.ok
             THEN [s EXCEPT !.labels = lbls,
                            !.code = Extend(@, b.bytes, line.rep),
                            !.addr = @ + line.rep * Len(b.bytes),
                            !.idx = @ + line.rep,
                            !.out = Append(@, b)]
             ELSE [s EXCEPT !.diag = Append(@, i), !.out = Append(@, b)]

RECURSIVE GenerateScan(_, _, _, _)
GenerateScan(ls, i, s, forms) ==
    IF i > Len(ls) THEN s
    ELSE GenerateScan(ls, i + 1, GenerateLine(s, ls[i], i, forms), forms)

-----------------------------------------------------------------------------
(* The instruction streams assembled *)

MaxLines == 4

LabelNames == {"a", "b"}

\* lengths of the runs of nop lines: short ones, and ones that bring a jump
\* to the edge of the one-byte displacement range
NopRuns == {1, 123, 125}

Alphabet ==
    {LabelLine(n) : n \in LabelNames}
    \cup {Instr("jmp", <<Sym(n)>>) : n \in LabelNames}
    \cup {Instr("je", <<Sym("a")>>), Instr("call", <<Sym("a")>>)}
    \cup {Run("nop", <<>>, k) : k \in NopRuns}
    \cup {Instr("push", <<Reg("al")>>),
          Instr("mov", <<Reg("al"), Imm(FromInt(300))>>)}

\* a label, then two jumps over a run of nop lines to a label after it
JumpsOverRun ==
    {<<LabelLine(x), Instr(j1, <<Sym(y)>>), Instr(j2, <<Sym(y)>>), Run("nop", <<>>, k),
       LabelLine(y)>> :
        x \in LabelNames, y \in LabelNames, j1 \in {"jmp", "je"}, j2 \in {"jmp", "je"},
        k \in NopRuns}

\* a label name with an upper-case letter, and its lower-case form
CaseNames == {"End", "end"}

\* short streams of labels with and without upper-case letters and of the
\* jumps and calls that name them
CaseAlphabet ==
    {LabelLine(n) : n \in CaseNames}
    \cup {Instr(j, <<Sym(n)>>) : j \in {"jmp", "je", "call"}, n \in CaseNames}
    \cup {Instr("nop", <<>>)}

MixedCase == UNION {[1..n -> CaseAlphabet] : n \in 2..3}

Streams ==
    UNION {[1..n -> Alphabet] : n \in 1..MaxLines} \cup JumpsOverRun \cup MixedCase

-----------------------------------------------------------------------------
(* assemble_code as a state machine: main() assembles a code first with    *)
(* relaxation and then, on the same Assembler, without.                    *)

\* Assembler.__init__: the fields of a constructed Assembler
AsmConstructed ==
    /\ labels = NoLabels
    /\ current_address = 0
    /\ current_instr_index = 0
    /\ jump_forms = NoForms
    /\ iteration = 0
    /\ converged = FALSE
    /\ warnings = <<>>
    /\ bytecodes = <<>>
    /\ diagnostics = <<>>
    /\ machine_code = <<>>
    /\ bytecode_relax = <<>>

\* main: a code is about to be assembled with relaxation
AsmInit ==
    /\ lines \in Streams
    /\ enable_relaxation = TRUE
    /\ pc = "pass1"
    /\ AsmConstructed

\* an Assembler on which assemble_code is not called
AsmIdle ==
    /\ lines = <<>>
    /\ enable_relaxation = TRUE
    /\ pc = "idle"
    /\ AsmConstructed

\* no line has been given to assemble
EncIdle ==
    /\ instruction = BlankLine
    /\ bytecode = None
    /\ assembled = FALSE

\* CodeGenerator.__init__: a generator on which compile is not called
GenIdle ==
    /\ asm_lines = <<>>
    /\ label_counter = 0
    /\ current_function = ""
    /\ loop_stack = <<>>
    /\ program = <<>>
    /\ gen_pc = "idle"
    /\ error = ""
    /\ compiles = 0

\* pass 1: collect the labels, every jump in near form
Pass1 ==
    /\ pc = "pass1"
    /\ LET s == Pass1Scan(lines, 1, [labels |-> NoLabels, addr |-> 0, idx |-> 0,
                                     warn |-> <<>>])
       IN  /\ labels' = s.labels
           /\ current_address' = s.addr
           /\ current_instr_index' = s.idx
           /\ warnings' = s.warn
    /\ jump_forms' = NoForms
    /\ iteration' = 0
    /\ converged' = FALSE
    /\ bytecodes' = <<>>
    /\ diagnostics' = <<>>
    /\ machine_code' = <<>>
    /\ pc' = IF enable_relaxation THEN "relax" ELSE "final"
    /\ UNCHANGED <<lines, enable_relaxation, bytecode_relax>>
    /\ UNCHANGED <<encVars, genVars>>

\* the analysis scan of one iteration, from the fields it starts with
Analysis(ls, lbls, forms) ==
    AnalyseScan(ls, 1, [addr |-> 0, idx |-> 0, forms |-> NoForms], lbls, forms)

\* the label recomputation of one iteration, under the updated forms
Recompute(ls, forms) ==
    RecomputeScan(ls, 1, [labels |-> NoLabels, addr |-> 0, idx |-> 0], forms)

\* an iteration whose warning does not depend on why the loop ended
RelaxIteration_warns_always ==
    /\ pc = "relax"
    /\ LET old_jump_forms == jump_forms
           new_jump_forms == Analysis(lines, labels, jump_forms).forms
           r == Recompute(lines, new_jump_forms)
           stable == new_jump_forms = old_jump_forms
           last == iteration + 1 = max_iterations
       IN  /\ jump_forms' = new_jump_forms
           /\ labels' = r.labels
           /\ current_address' = r.addr
           /\ current_instr_index' = r.idx
           /\ iteration' = iteration + 1
           /\ converged' = stable
           /\ warnings' = IF stable \/ last
                          THEN Append(warnings, "Relaxation konvergierte nicht")
                          ELSE warnings
           /\ pc' = IF stable \/ last THEN "final" ELSE "relax"
    /\ UNCHANGED <<lines, enable_relaxation, bytecodes, diagnostics, machine_code,
                   bytecode_relax>>
    /\ UNCHANGED <<encVars, genVars>>

\* one iteration of the relaxation loop
RelaxIteration ==
    /\ pc = "relax"
    /\ LET old_jump_forms == jump_forms
           new_jump_forms == Analysis(lines, labels, jump_forms).forms
           r == Recompute(lines, new_jump_forms)
           stable == new_jump_forms = old_jump_forms
           last == iteration + 1 = max_iterations
       IN  /\ jump_forms' = new_jump_forms
           /\ labels' = r.labels
           /\ current_address' = r.addr
           /\ current_instr_index' = r.idx
           /\ iteration' = iteration + 1
           /\ converged' = stable
           /\ warnings' = IF ~stable /\ last
                          THEN Append(warnings, "Relaxation konvergierte nicht")
                          ELSE warnings
           /\ pc' = IF stable \/ last THEN "final" ELSE "relax"
    /\ UNCHANGED <<lines, enable_relaxation, bytecodes, diagnostics, machine_code,
                   bytecode_relax>>
    /\ UNCHANGED <<encVars, genVars>>

\* _generate_code: the final pass
GenerateCode ==
    /\ pc = "final"
    /\ LET s == GenerateScan(lines, 1, [labels |-> labels, addr |-> 0, idx |-> 0,
                                        code |-> <<>>, out |-> <<>>, diag |-> <<>>],
                             jump_forms)
       IN  /\ labels' = s.labels
           /\ current_address' = s.addr
           /\ current_instr_index' = s.idx
           /\ bytecodes' = s.out
           /\ diagnostics' = s.diag
           /\ machine_code' = s.code
    /\ pc' = "returned"
    /\ UNCHANGED <<lines, enable_relaxation, jump_forms, iteration, converged,
                   warnings, bytecode_relax>>
    /\ UNCHANGED <<encVars, genVars>>

\* main: keep the relaxed result and assemble the same code without relaxation
AssembleWithoutRelaxation ==
    /\ pc = "returned"
    /\ enable_relaxation
    /\ bytecode_relax' = machine_code
    /\ enable_relaxation' = FALSE
    /\ pc' = "pass1"
    /\ UNCHANGED <<lines, labels, current_address, current_instr_index, jump_forms,
                   iteration, converged, warnings, bytecodes, diagnostics,
                   machine_code>>
    /\ UNCHANGED <<encVars, genVars>>

Next == Pass1 \/ RelaxIteration \/ GenerateCode \/ AssembleWithoutRelaxation

Init == AsmInit /\ EncIdle /\ GenIdle

Spec == Init /\ [][Next]_vars

-----------------------------------------------------------------------------
(* The interactive mode of main: one line is given to Assembler.assemble.  *)

\* the destination registers drawn, each width with and without REX
MovDests == {"al", "ah", "sil", "r8b", "ax", "r9w", "eax", "r10d", "rax", "r11"}

\* immediate widths in bytes
ImmWidths == {1, 2, 4, 8}

\* the immediates around the limits of an n-byte destination:
\* -2^(8n-1)-1, -2^(8n-1), 2^(8n-1)-1, 2^(8n-1), 2^(8n)-1, 2^(8n)
Boundaries(n) ==
    { Big(TRUE, IF n = 1 THEN <<129>> ELSE <<1>> \o Zeros(n - 2) \o <<128>>),
      Big(TRUE, HalfMag(n)),
      Big(FALSE, Ones(n - 1) \o <<127>>),
      Big(FALSE, HalfMag(n)),
      Big(FALSE, Ones(n)),
      Big(FALSE, Zeros(n) \o <<1>>) }

MaxSmallImm == 2

Immediates ==
    UNION {Boundaries(n) : n \in ImmWidths}
      \cup {FromInt(k) : k \in (-MaxSmallImm)..MaxSmallImm} \cup {FromInt(300)}

MovImmLines == {Instr("mov", <<Reg(d), Imm(v)>>) : d \in MovDests, v \in Immediates}

\* a line is about to be given to a constructed Assembler
EncInit ==
    /\ instruction \in MovImmLines
    /\ bytecode = None
    /\ assembled = FALSE
    /\ AsmIdle
    /\ GenIdle

\* bytecode = asm.assemble(line)
AssembleLine ==
    /\ ~assembled
    /\ bytecode' = assemble_instr(instruction, labels, jump_forms, current_address,
                                  current_instr_index)
    /\ assembled' = TRUE
    /\ UNCHANGED <<instruction, asmVars, genVars>>

EncNext == AssembleLine

EncSpec == EncInit /\ [][EncNext]_vars

-----------------------------------------------------------------------------
(* The abstract syntax tree (syntactic_analyzer.py) as records.  An        *)
(* Optional field that is None is a flag beside the field.                 *)

\* expressions: Literal, Identifier, BinaryOp, UnaryOp, Call, Deref
Expr(kind, name, value, type, args, is_param, stack_offset) ==
    [kind |-> kind, name |-> name, value |-> value, inferred_type |-> type,
     args |-> args, is_param |-> is_param, stack_offset |-> stack_offset]

\* value is the text of the literal, one character per element
Literal(value, type) == Expr("Literal", "", value, type, <<>>, FALSE, 0)
\* an identifier with the symbol the semantic analysis attached to it
Identifier(name, type, is_param, stack_offset) ==
    Expr("Identifier", name, <<>>, type, <<>>, is_param, stack_offset)
BinaryOp(left, op, right, type) == Expr("BinaryOp", op, <<>>, type, <<left, right>>, FALSE, 0)
UnaryOp(op, operand, type) == Expr("UnaryOp", op, <<>>, type, <<operand>>, FALSE, 0)
Call(name, args) == Expr("Call", name, <<>>, "i32", args, FALSE, 0)
Deref(operand) == Expr("Deref", "", <<>>, "i32", <<operand>>, FALSE, 0)
NoExpr == Expr("None", "", <<>>, "", <<>>, FALSE, 0)

\* statements: Return, If, While, Break, Continue, ExprStatement, VarDecl,
\* Assignment; target is the assigned identifier or the declared local
Stmt(kind, expression, target, block, else_block, has_else) ==
    [kind |-> kind, expression |-> expression, target |-> target, block |-> block,
     else_block |-> else_block, has_else |-> has_else]

Return(value) == Stmt("Return", value, NoExpr, <<>>, <<>>, FALSE)
If(condition, then_block) == Stmt("If", condition, NoExpr, then_block, <<>>, FALSE)
IfElse(condition, then_block, else_block) ==
    Stmt("If", condition, NoExpr, then_block, else_block, TRUE)
While(condition, body) == Stmt("While", condition, NoExpr, body, <<>>, FALSE)
Break == Stmt("Break", NoExpr, NoExpr, <<>>, <<>>, FALSE)
Continue == Stmt("Continue", NoExpr, NoExpr, <<>>, <<>>, FALSE)
ExprStatement(expression) == Stmt("ExprStatement", expression, NoExpr, <<>>, <<>>, FALSE)
VarDecl(local, init) == Stmt("VarDecl", init, local, <<>>, <<>>, FALSE)
Assignment(target, value) == Stmt("Assignment", value, target, <<>>, <<>>, FALSE)

Function(name, stack_size, body) == [name |-> name, stack_size |-> stack_size, body |-> body]

-----------------------------------------------------------------------------
(* CodeGenerator.  A compile step carries the fields of the generator in a *)
(* record g = [asm_lines, label_counter, loop_stack, current_function,     *)
(* error]; once error is set the exception is propagating and nothing more *)
(* is executed.                                                            *)

Raise(g, exc) == [g EXCEPT !.error = IF @ # "" THEN @ ELSE exc]

\* emit
emit(g, line) == [g EXCEPT !.asm_lines = IF g.error # "" THEN @ ELSE Append(@, line)]

\* emit_label
emit_label(g, label) == emit(g, LabelLine(label))

\* emit for each line of ls in turn
emit_all(g, ls) == [g EXCEPT !.asm_lines = IF g.error # "" THEN @ ELSE @ \o ls]

\* fresh_label: the label it returns, and the generator afterwards
fresh_label(g, prefix) == prefix \o "_" \o ToString(g.label_counter)
Counted(g) == [g EXCEPT !.label_counter = IF g.error # "" THEN @ ELSE @ + 1]

\* the instruction lines the generator writes
Ins0(op) == Instr(op, <<>>)
Ins1(op, a) == Instr(op, <<a>>)
Ins2(op, a, b) == Instr(op, <<a, b>>)
ImmOf(n) == Imm(FromInt(n))

arg_regs_64 == <<"rdi", "rsi", "rdx", "rcx", "r8", "r9">>
arg_regs_32 == <<"edi", "esi", "edx", "ecx", "r8d", "r9d">>

\* parse_literal_value: hexadecimal, binary or decimal text to its value
DigitValue ==
    [c \in {"0", "1", "2", "3", "4", "5", "6", "7", "8", "9", "a", "b", "c", "d",
            "e", "f"} |->
        CASE c = "0" -> 0 [] c = "1" -> 1 [] c = "2" -> 2 [] c = "3" -> 3
          [] c = "4" -> 4 [] c = "5" -> 5 [] c = "6" -> 6 [] c = "7" -> 7
          [] c = "8" -> 8 [] c = "9" -> 9 [] c = "a" -> 10 [] c = "b" -> 11
          [] c = "c" -> 12 [] c = "d" -> 13 [] c = "e" -> 14 [] c = "f" -> 15]

RECURSIVE ParseDigits(_, _, _)
ParseDigits(digits, base, acc) ==
    IF digits = <<>> THEN acc
    ELSE ParseDigits(Tail(digits), base, acc * base + DigitValue[Head(digits)])

parse_literal_value(value_str) ==
    IF Len(value_str) >= 2 /\ value_str[1] = "0" /\ value_str[2] = "x"
    THEN ParseDigits(SubSeq(value_str, 3, Len(value_str)), 16, 0)
    ELSE IF Len(value_str) >= 2 /\ value_str[1] = "0" /\ value_str[2] = "b"
    THEN ParseDigits(SubSeq(value_str, 3, Len(value_str)), 2, 0)
    ELSE ParseDigits(value_str, 10, 0)

\* compile_literal: the register and the value of the mov it emits
LiteralMov(value, lit_type) ==
    IF lit_type = "i8"
    THEN Ins2("mov", Reg("eax"), ImmOf(IF value > 127 THEN value - 256 ELSE value))
    ELSE IF lit_type = "u8" THEN Ins2("mov", Reg("eax"), ImmOf(value % 256))
    ELSE IF lit_type \in {"i64", "u64"} THEN Ins2("mov", Reg("rax"), ImmOf(value))
    ELSE Ins2("mov", Reg("eax"), ImmOf(value))

\* compile_literal
compile_literal(g, lit) ==
    emit(g, LiteralMov(parse_literal_value(lit.value), lit.inferred_type))

\* a load that extends every narrow local with zeros
LoadLocal_zero_extended(type, slot) ==
    IF type \in {"i8", "u8"} THEN Instr("movzx", <<Reg("eax"), Kw("byte"), slot>>)
    ELSE IF type \in {"i16", "u16"} THEN Instr("movzx", <<Reg("eax"), Kw("word"), slot>>)
    ELSE IF type \in {"i64", "u64"} THEN Instr("mov", <<Reg("rax"), Kw("qword"), slot>>)
    ELSE Ins2("mov", Reg("eax"), slot)

\* compile_identifier: the load from the stack slot, by the type of the symbol
LoadLocal(type, slot) ==
    IF type = "i8" THEN Instr("movsx", <<Reg("eax"), Kw("byte"), slot>>)
    ELSE IF type = "u8" THEN Instr("movzx", <<Reg("eax"), Kw("byte"), slot>>)
    ELSE IF type = "i16" THEN Instr("movsx", <<Reg("eax"), Kw("word"), slot>>)
    ELSE IF type = "u16" THEN Instr("movzx", <<Reg("eax"), Kw("word"), slot>>)
    ELSE IF type \in {"i64", "u64"} THEN Instr("mov", <<Reg("rax"), Kw("qword"), slot>>)
    ELSE Ins2("mov", Reg("eax"), slot)

\* compile_identifier
compile_identifier(g, ident) ==
    IF ident.is_param THEN Raise(g, "NotImplementedError")
    ELSE emit(g, LoadLocal(ident.inferred_type, Mem("rbp", FromInt(ident.stack_offset))))

RECURSIVE compile_expression(_, _)

\* operands whose left value waits in a register for the right one
Operands_in_register(g, binop) ==
    emit_all(compile_expression(emit(compile_expression(g, binop.args[1]),
                                     Ins2("mov", Reg("esi"), Reg("eax"))),
                                binop.args[2]),
             <<Ins2("mov", Reg("ecx"), Reg("eax")), Ins2("mov", Reg("eax"), Reg("esi"))>>)

\* the evaluation both operands of a binary operator go through
Operands(g, binop) ==
    emit_all(compile_expression(emit(compile_expression(g, binop.args[1]),
                                     Ins1("push", Reg("rax"))),
                                binop.args[2]),
             <<Ins2("mov", Reg("ecx"), Reg("eax")), Ins1("pop", Reg("rax"))>>)

\* the conditional jumps of an unsigned comparison
jump_map_unsigned == [eq |-> "je", ne |-> "jne", lt |-> "jb", le |-> "jbe", gt |-> "ja",
                      ge |-> "jae"]

jump_map == [eq |-> "je", ne |-> "jne", lt |-> "jl", le |-> "jle", gt |-> "jg",
             ge |-> "jge"]

\* the key of a comparison operator in jump_map
CmpKey(op) ==
    CASE op = "==" -> "eq" [] op = "!=" -> "ne" [] op = "<" -> "lt"
      [] op = "<=" -> "le" [] op = ">" -> "gt" [] op = ">=" -> "ge"

\* compile_binaryop: the lines after the operands of an arithmetic, bitwise
\* or shift operator
OperatorLines(op, left_type) ==
    CASE op = "+" -> <<Ins2("add", Reg("eax"), Reg("ecx"))>>
      [] op = "-" -> <<Ins2("sub", Reg("eax"), Reg("ecx"))>>
      [] op = "*" -> <<Ins1("imul", Reg("ecx"))>>
      [] op = "/" -> <<Ins0("cdq"), Ins1("idiv", Reg("ecx"))>>
      [] op = "%" -> <<Ins0("cdq"), Ins1("idiv", Reg("ecx")),
                       Ins2("mov", Reg("eax"), Reg("edx"))>>
      [] op = "&" -> <<Ins2("and", Reg("eax"), Reg("ecx"))>>
      [] op = "|" -> <<Ins2("or", Reg("eax"), Reg("ecx"))>>
      [] op = "^" -> <<Ins2("xor", Reg("eax"), Reg("ecx"))>>
      [] op = "<<" -> <<Ins2("shl", Reg("eax"), Reg("cl"))>>
      [] op = ">>" -> IF left_type \in {"i8", "i16", "i32", "i64"}
                      THEN <<Ins2("sar", Reg("eax"), Reg("cl"))>>
                      ELSE <<Ins2("shr", Reg("eax"), Reg("cl"))>>

\* compile_binaryop: the lines after the operands of a comparison
ComparisonLines(op, true_label, end_label) ==
    <<Ins2("cmp", Reg("eax"), Reg("ecx")),
      Ins1(jump_map[CmpKey(op)], Sym(true_label)),
      Ins2("mov", Reg("eax"), ImmOf(0)),
      Ins1("jmp", Sym(end_label)),
      LabelLine(true_label),
      Ins2("mov", Reg("eax"), ImmOf(1)),
      LabelLine(end_label)>>

\* compile_binaryop: the comparison on the generator o the operands left
Materialise(o, op) ==
    emit_all(Counted(Counted(o)),
             ComparisonLines(op, fresh_label(o, "cmp_true"),
                             fresh_label(Counted(o), "cmp_end")))

\* compile_binaryop
compile_binaryop(g, binop) ==
    IF binop.name \in {"+", "-", "*", "/", "%", "&", "|", "^", "<<", ">>"}
    THEN emit_all(Operands(g, binop),
                  OperatorLines(binop.name, binop.args[1].inferred_type))
    ELSE IF binop.name \in {"==", "!=", "<", "<=", ">", ">="}
    THEN Materialise(Operands(g, binop), binop.name)
    ELSE Raise(g, "NotImplementedError")

\* compile_unaryop
compile_unaryop(g, unaryop) ==
    IF unaryop.name \in {"-", "!"}
    THEN emit(compile_expression(g, unaryop.args[1]),
              IF unaryop.name = "!" THEN Ins2("xor", Reg("eax"), ImmOf(1))
              ELSE IF unaryop.args[1].inferred_type \in {"i64", "u64"}
              THEN Ins1("neg", Reg("rax"))
              ELSE Ins1("neg", Reg("eax")))
    ELSE Raise(g, "NotImplementedError")

\* compile_call, first loop: evaluate and push the arguments from the i-th on
RECURSIVE PushArgs(_, _, _)
PushArgs(g, args, i) ==
    IF g.error # "" \/ i > Len(args) THEN g
    ELSE PushArgs(emit(compile_expression(g, args[i]), Ins1("push", Reg("rax"))),
                  args, i + 1)

\* compile_call, second loop: pop into the registers of arguments i, i-1, .. 1
RECURSIVE PopLines(_)
PopLines(i) ==
    IF i = 0 THEN <<>>
    ELSE <<Ins1("pop", Reg("rax")), Ins2("mov", Reg(arg_regs_32[i]), Reg("eax"))>>
           \o PopLines(i - 1)

\* a second loop that leaves the first argument where it was pushed
PopArgs_but_first(g, i) == emit_all(g, PopLines(IF i > 0 THEN i - 1 ELSE 0))
PopArgs(g, i) == emit_all(g, PopLines(i))

\* a call that counts its arguments after it has evaluated them
compile_call_late(g, call) ==
    IF Len(call.args) > 6
    THEN Raise(PushArgs(g, call.args, 1), "NotImplementedError")
    ELSE emit(PopArgs(PushArgs(g, call.args, 1), Len(call.args)),
              Ins1("call", Sym(call.name)))

\* compile_call
compile_call(g, call) ==
    IF Len(call.args) > 6 THEN Raise(g, "NotImplementedError")
    ELSE emit(PopArgs(PushArgs(g, call.args, 1), Len(call.args)),
              Ins1("call", Sym(call.name)))

\* compile_expression
compile_expression(g, expr) ==
    CASE g.error # "" -> g
      [] expr.kind = "Literal" -> compile_literal(g, expr)
      [] expr.kind = "Identifier" -> compile_identifier(g, expr)
      [] expr.kind = "BinaryOp" -> compile_binaryop(g, expr)
      [] expr.kind = "UnaryOp" -> compile_unaryop(g, expr)
      [] expr.kind = "Call" -> compile_call(g, expr)
      [] OTHER -> Raise(g, "NotImplementedError")

\* the store to a stack slot, by the type of the local
StoreLocal(type, slot) ==
    IF type \in {"i8", "u8"} THEN Instr("mov", <<Kw("byte"), slot, Reg("al")>>)
    ELSE IF type \in {"i16", "u16"} THEN Instr("mov", <<Kw("word"), slot, Reg("ax")>>)
    ELSE IF type \in {"i64", "u64"} THEN Instr("mov", <<Kw("qword"), slot, Reg("rax")>>)
    ELSE Ins2("mov", slot, Reg("eax"))

\* the store after the value of a declaration or an assignment
Store(v, local) ==
    IF local.kind # "Identifier" THEN Raise(v, "NotImplementedError")
    ELSE emit(v, StoreLocal(local.inferred_type, Mem("rbp", FromInt(local.stack_offset))))

\* a return lowered to an exit sequence in place
JumpToEpilog_inline(v) == emit_all(v, <<Ins1("pop", Reg("rbp")), Ins0("ret")>>)

\* compile_return: the jump to the epilog of the function being compiled
JumpToEpilog(v) == emit(v, Ins1("jmp", Sym(v.current_function \o "_epilog")))

\* compile_break
compile_break(g) ==
    IF g.loop_stack = <<>> THEN Raise(g, "RuntimeError")
    ELSE emit(g, Ins1("jmp", Sym(g.loop_stack[Len(g.loop_stack)][2])))

\* compile_continue
compile_continue(g) ==
    IF g.loop_stack = <<>> THEN Raise(g, "RuntimeError")
    ELSE emit(g, Ins1("jmp", Sym(g.loop_stack[Len(g.loop_stack)][1])))

RECURSIVE compile_block(_, _)

\* compile_if from the else branch on; t is the generator after the then block
ElsePart(t, if_stmt, else_label, end_label) ==
    emit_label(IF if_stmt.has_else
               THEN compile_block(emit_all(t, <<Ins1("jmp", Sym(end_label)),
                                                LabelLine(else_label)>>),
                                  if_stmt.else_block)
               ELSE t,
               end_label)

\* compile_if from the test on; c is the generator after the condition
ThenPart(c, if_stmt, else_label, end_label) ==
    compile_block(emit_all(c, <<Ins2("cmp", Reg("eax"), ImmOf(0)),
                                Ins1("je", Sym(IF if_stmt.has_else THEN else_label
                                               ELSE end_label))>>),
                  if_stmt.block)

\* loop_stack.append and loop_stack.pop
PushLoop(g, entry) ==
    [g EXCEPT !.loop_stack = IF g.error # "" THEN @ ELSE Append(@, entry)]
\* a while that leaves its labels on the stack
PopLoop_kept(g) == g
PopLoop(g) ==
    [g EXCEPT !.loop_stack = IF g.error # "" THEN @ ELSE SubSeq(@, 1, Len(@) - 1)]

\* compile_while from the test on; c is the generator after the condition
LoopPart(c, while_stmt, cond_label, body_label, end_label) ==
    PopLoop(emit_all(compile_block(emit_all(c, <<Ins2("cmp", Reg("eax"), ImmOf(0)),
                                                 Ins1("je", Sym(end_label)),
                                                 LabelLine(body_label)>>),
                                   while_stmt.block),
                     <<Ins1("jmp", Sym(cond_label)), LabelLine(end_label)>>))

\* the generator after n calls of fresh_label
CountedBy(g, n) == [g EXCEPT !.label_counter = IF g.error # "" THEN @ ELSE @ + n]

\* the label the k-th of these calls returns, k from 0
NthLabel(g, prefix, k) == prefix \o "_" \o ToString(g.label_counter + k)

\* compile_statement
compile_statement(g, stmt) ==
    CASE g.error # "" -> g
      [] stmt.kind = "VarDecl" ->
         \* compile_vardecl
         IF stmt.expression.kind # "None"
         THEN Store(compile_expression(g, stmt.expression), stmt.target)
         ELSE g
      [] stmt.kind = "Assignment" ->
         \* compile_assignment
         Store(compile_expression(g, stmt.expression), stmt.target)
      [] stmt.kind = "Return" ->
         \* compile_return
         JumpToEpilog(IF stmt.expression.kind # "None"
                      THEN compile_expression(g, stmt.expression) ELSE g)
      [] stmt.kind = "If" ->
         \* compile_if
         ElsePart(ThenPart(compile_expression(CountedBy(g, 2), stmt.expression), stmt,
                           NthLabel(g, "if_else", 0), NthLabel(g, "if_end", 1)),
                  stmt, NthLabel(g, "if_else", 0), NthLabel(g, "if_end", 1))
      [] stmt.kind = "While" ->
         \* compile_while
         LoopPart(compile_expression(
                      emit_label(PushLoop(CountedBy(g, 3),
                                          <<NthLabel(g, "while_cond", 0),
                                            NthLabel(g, "while_end", 2)>>),
                                 NthLabel(g, "while_cond", 0)),
                      stmt.expression),
                  stmt, NthLabel(g, "while_cond", 0), NthLabel(g, "while_body", 1),
                  NthLabel(g, "while_end", 2))
      [] stmt.kind = "Break" -> compile_break(g)
      [] stmt.kind = "Continue" -> compile_continue(g)
      [] stmt.kind = "ExprStatement" -> compile_expression(g, stmt.expression)
      [] OTHER -> Raise(g, "NotImplementedError")

\* compile_block
compile_block(g, block) ==
    IF g.error # "" \/ block = <<>> THEN g
    ELSE compile_block(compile_statement(g, Head(block)), Tail(block))

\* compile_function up to the body: the label, the prolog, the frame
Prolog(func) ==
    <<LabelLine(func.name), Ins1("push", Reg("rbp")), Ins2("mov", Reg("rbp"), Reg("rsp"))>>
      \o (IF func.stack_size > 0
          THEN <<Ins2("sub", Reg("rsp"), ImmOf(func.stack_size))>> ELSE <<>>)

\* compile_function after the body: the epilog label and the exit sequence
Epilog(func) ==
    <<LabelLine(func.name \o "_epilog")>>
      \o (IF func.stack_size > 0 THEN <<Ins2("mov", Reg("rsp"), Reg("rbp"))>> ELSE <<>>)
      \o <<Ins1("pop", Reg("rbp")), Ins0("ret"), BlankLine>>

\* the assignments to current_function
SetFunction(g, name) ==
    [g EXCEPT !.current_function = IF g.error # "" THEN @ ELSE name]

\* compile_function
compile_function(g, func) ==
    SetFunction(emit_all(compile_block(emit_all(SetFunction(g, func.name), Prolog(func)),
                                       func.body),
                         Epilog(func)),
                "")

\* the loop of compile over the functions of the program
RECURSIVE compile_functions(_, _)
compile_functions(g, functions) ==
    IF g.error # "" \/ functions = <<>> THEN g
    ELSE compile_functions(compile_function(g, Head(functions)), Tail(functions))

-----------------------------------------------------------------------------
(* The programs given to compile *)

MaxNodes == 4        \* functions and statements of a control-flow program
MaxArgs == 7         \* arguments of a call
MaxCompiles == 2     \* compile calls on one CodeGenerator

FuncNames == {"f", "g"}

One == Literal(<<"1">>, "i32")
LocalX == Identifier("x", "i32", FALSE, -4)
ParamP == Identifier("p", "i32", TRUE, 0)

\* a call with n literal arguments
CallOf(n) == Call("h", [i \in 1..n |-> One])

\* statements without a block
Leaves == {Return(NoExpr), Return(One), Break, Continue, ExprStatement(CallOf(MaxArgs))}

\* the statements of n nodes, and the blocks of n nodes in all
RECURSIVE Blocks(_)
StmtsOfSize(n) ==
    IF n = 1 THEN Leaves \cup {While(One, <<>>), If(One, <<>>), IfElse(One, <<>>, <<>>)}
    ELSE {While(One, b) : b \in Blocks(n - 1)}
           \cup {If(One, b) : b \in Blocks(n - 1)}
           \cup UNION {{IfElse(One, b1, b2) : b1 \in Blocks(j), b2 \in Blocks(n - 1 - j)} :
                       j \in 0..(n - 1)}

Blocks(n) ==
    IF n = 0 THEN {<<>>}
    ELSE UNION {{<<st>> \o rest : st \in StmtsOfSize(k), rest \in Blocks(n - k)} :
                k \in 1..n}

\* the functions of n nodes; without locals the frame is empty
FunsOfSize(n) == {Function(nm, 0, b) : nm \in FuncNames, b \in Blocks(n - 1)}

RECURSIVE ProgramsOfSize(_)
ProgramsOfSize(n) ==
    IF n = 0 THEN {<<>>}
    ELSE UNION {{<<fn>> \o rest : fn \in FunsOfSize(k), rest \in ProgramsOfSize(n - k)} :
                k \in 1..n}

ControlPrograms == UNION {ProgramsOfSize(n) : n \in 0..MaxNodes}

\* expressions: atoms, operators on atoms, calls of atoms and of calls
Atoms == {One, LocalX}

BinaryOps == {"+", "-", "*", "/", "%", "&", "|", "^", "<<", ">>", "==", "!=", "<", "<=",
              ">", ">=", "&&"}

UnaryOps == {"-", "!", "~"}

ArgLists == UNION {[1..n -> Atoms] : n \in 0..MaxArgs}

\* a local of 8 bytes below the local x, and the calls that pass it
Wide == Identifier("y", "i64", FALSE, -16)
WideArgLists == UNION {[1..n -> {One, Wide}] : n \in 1..2}

\* two locals of an unsigned type, side by side at the bottom of the frame
UnsignedL == Identifier("a", "u32", FALSE, -16)
UnsignedR == Identifier("b", "u32", FALSE, -12)
RelationalOps == {"<", "<=", ">", ">="}

Exprs ==
    Atoms \cup {ParamP, Deref(LocalX)}
      \cup {BinaryOp(UnsignedL, op, UnsignedR, "bool") : op \in RelationalOps}
      \cup {BinaryOp(l, op, r, "i32") : l \in Atoms, op \in BinaryOps, r \in Atoms}
      \cup {UnaryOp(op, a, "i32") : op \in UnaryOps, a \in Atoms}
      \cup {Call("h", args) : args \in ArgLists}
      \cup {Call("h", <<CallOf(n)>>) : n \in 0..MaxArgs}
      \cup {Call("h", <<One, CallOf(n)>>) : n \in 0..MaxArgs}
      \cup {Call("h", args) : args \in WideArgLists}
      \cup {BinaryOp(CallOf(0), op, CallOf(0), "i32") : op \in BinaryOps}
      \cup {Wide, Literal(<<"1">>, "i64")}
      \cup {Call("h", [i \in 1..n |-> CallOf(0)]) : n \in 0..6}
      \cup {BinaryOp(Wide, op, Wide, "i64") : op \in BinaryOps}

\* a function of one statement over one local of 4 bytes in an aligned frame
ExprPrograms ==
    {<<Function("f", 16, <<st>>)>> :
        st \in {ExprStatement(e) : e \in Exprs} \cup {Return(e) : e \in Exprs}
                 \cup {VarDecl(LocalX, e) : e \in Exprs}
                 \cup {Assignment(LocalX, e) : e \in Exprs}}

\* the integer types, and a local of each at the bottom of the frame
IntTypes == {"i8", "u8", "i16", "u16", "i32", "u32", "i64", "u64"}
Typed(type) == Identifier("v", type, FALSE, -16)

\* a local is given the result of a call, by its declaration or by an
\* assignment, and read after another call
RoundTrips ==
    {<<Function("f", 16, <<st, ExprStatement(CallOf(0)), ExprStatement(st.target)>>)>> :
        st \in {VarDecl(Typed(t), CallOf(0)) : t \in IntTypes}
                 \cup {Assignment(Typed(t), CallOf(0)) : t \in IntTypes}}

\* three whiles, one in the other, with a break or a continue before and
\* after each inner one
LoopExits == {Break, Continue}
NestedLoops ==
    {<<Function("f", 0,
         <<While(One, <<a, While(One, <<b, While(One, <<c>>), d>>), e>>)>>)>> :
        a \in LoopExits, b \in LoopExits, c \in LoopExits, d \in LoopExits,
        e \in LoopExits}

\* function names that are also labels the generator makes up: the epilog
\* label of f and the first label of a while
ClashNames == {"f", "f_epilog", "while_cond_0"}
NameClashes ==
    {<<Function(a, 0, <<s>>), Function(b, 0, <<t>>)>> :
        a \in ClashNames, b \in ClashNames,
        s \in {Return(NoExpr), While(One, <<>>), If(One, <<>>)},
        t \in {Return(NoExpr), While(One, <<>>), If(One, <<>>)}}

Programs == ControlPrograms \cup ExprPrograms \cup RoundTrips \cup NestedLoops \cup NameClashes

-----------------------------------------------------------------------------
(* CodeGenerator.compile as a state machine on one generator *)

\* compile is called: the output and the label counter are reset
EnterCompile ==
    /\ gen_pc \in {"idle", "returned", "raised"}
    /\ compiles < MaxCompiles
    /\ asm_lines' = <<>>
    /\ label_counter' = 0
    /\ program' = <<>>
    /\ error' = ""
    /\ gen_pc' = "compiling"
    /\ compiles' = compiles + 1
    /\ UNCHANGED <<current_function, loop_stack, asmVars, encVars>>

\* the functions of the program given are compiled; compile returns or raises
CompileFunctions ==
    /\ gen_pc = "compiling"
    /\ \E p \in Programs :
         LET g == compile_functions([asm_lines |-> asm_lines,
                                     label_counter |-> label_counter,
                                     loop_stack |-> loop_stack,
                                     current_function |-> current_function,
                                     error |-> ""], p)
         IN  /\ program' = p
             /\ asm_lines' = g.asm_lines
             /\ label_counter' = g.label_counter
             /\ loop_stack' = g.loop_stack
             /\ current_function' = g.current_function
             /\ error' = g.error
             /\ gen_pc' = IF g.error = "" THEN "returned" ELSE "raised"
    /\ UNCHANGED <<compiles, asmVars, encVars>>

GenNext == EnterCompile \/ CompileFunctions

\* a generator has been constructed
GenInit == GenIdle /\ AsmIdle /\ EncIdle

GenSpec == GenInit /\ [][GenNext]_vars

(* The states the properties are stated about *)
(* What the claims speak about *)

\* the first call of main, with relaxation, has returned
RelaxedReturned == pc = "returned" /\ enable_relaxation

\* the second call, without relaxation, has returned
BothReturned == pc = "returned" /\ ~enable_relaxation

\* line i is a jmp or conditional jump (with call: or a call) naming a label
IsLabelJump(i) ==
    /\ lines[i].kind = "instr"
    /\ lines[i].op \in JumpOps
    /\ Len(lines[i].args) = 1
    /\ ~is_immediate(lines[i].args[1])

IsLabelJumpOrCall(i) ==
    /\ lines[i].kind = "instr"
    /\ lines[i].op \in JumpOps \cup {"call"}
    /\ Len(lines[i].args) = 1
    /\ ~is_immediate(lines[i].args[1])

TargetOf(i) == lines[i].args[1].name

\* the lines that define label n
DefsOf(n) == {k \in DOMAIN lines : lines[k].kind = "label" /\ lines[k].op = n}

UniqueLabels == \A n \in LabelNames \cup CaseNames : Cardinality(DefsOf(n)) <= 1

\* the label names are in lower case, as assemble looks them up
LowerCaseLabels ==
    \A k \in DOMAIN lines : lines[k].kind = "label" => lines[k].op = Lower(lines[k].op)

\* number of bytes line k contributed to the returned stream
Contributed(k) ==
    IF bytecodes[k].ok THEN lines[k].rep * Len(bytecodes[k].bytes) ELSE 0

\* byte offset of line k in the returned stream
RECURSIVE OffsetOf(_)
OffsetOf(k) == IF k = 1 THEN 0 ELSE OffsetOf(k - 1) + Contributed(k - 1)

\* the displacement an emitted jump carries: rel8 of a 2-byte form, else rel32
DispOf(bytes) ==
    IF Len(bytes) = 2 THEN SignedValue(<<bytes[2]>>)
    ELSE SignedValue(SubSeq(bytes, Len(bytes) - 3, Len(bytes)))

\* C1: in the relaxed result every jump to a defined label carries
\* the displacement from the end of the jump to the label, both measured in
\* the returned stream
C1_Displacements ==
    (RelaxedReturned /\ UniqueLabels) =>
        \A i \in DOMAIN lines :
            (IsLabelJump(i) /\ DefsOf(TargetOf(i)) # {}) =>
                \A d \in DefsOf(TargetOf(i)) :
                    /\ Truthy(bytecodes[i])
                    /\ DispOf(bytecodes[i].bytes)
                         = OffsetOf(d) - (OffsetOf(i) + Len(bytecodes[i].bytes))

\* the stream of main's example 5, with the label named a
Example5 == <<LabelLine("a"), Instr("nop", <<>>), Instr("nop", <<>>),
              Instr("jmp", <<Sym("a")>>)>>

\* a backward jump i to label line d reaches d with a one-byte displacement
\* when it is emitted in the 2-byte form
ShortReaches(i, d) == OffsetOf(d) - (OffsetOf(i) + 2) >= -128

\* C2: a backward jump within one-byte reach is emitted short, and
\* example 5 assembles to 90 90 EB FD
C2_BackwardShort ==
    RelaxedReturned =>
        /\ lines = Example5 => Flat(machine_code) = <<144, 144, 235, 253>>
        /\ UniqueLabels =>
             \A i \in DOMAIN lines : \A d \in DOMAIN lines :
                 (IsLabelJump(i) /\ d \in DefsOf(TargetOf(i)) /\ d < i
                  /\ ShortReaches(i, d))
                     => Len(bytecodes[i].bytes) = 2

\* every jump that names a label names one defined on a later line
AllJumpsForward ==
    \A i \in DOMAIN lines :
        IsLabelJump(i) =>
            /\ DefsOf(TargetOf(i)) # {}
            /\ \A d \in DefsOf(TargetOf(i)) : d > i

\* C3: with forward jumps only, the loop leaves by convergence and
\* prints no non-convergence warning
C3_ForwardConverges ==
    (enable_relaxation /\ pc \in {"final", "returned"} /\ AllJumpsForward) =>
        /\ converged
        /\ "Relaxation konvergierte nicht" \notin Range(warnings)

\* C4: the relaxed result is never longer than the unrelaxed result of the
\* same stream
C4_RelaxedNotLonger ==
    BothReturned => FlatLen(bytecode_relax) <= FlatLen(machine_code)

\* both calls returned, the stream holds a jump to a label, and
\* relaxation made the result strictly shorter
C4_Witness ==
    /\ BothReturned
    /\ \E i \in DOMAIN lines : IsLabelJump(i)
    /\ FlatLen(bytecode_relax) < FlatLen(machine_code)

\* C5: a jump or call to a label missing from the label table in
\* the final pass makes assemble_code return no bytes
C5_UnresolvedIsFatal ==
    (pc = "returned"
     /\ \E i \in DOMAIN lines :
            IsLabelJumpOrCall(i) /\ Lower(TargetOf(i)) \notin DOMAIN labels)
        => machine_code = <<>>

\* C6: in the final pass a line without an encoding is reported
\* under its line, contributes nothing, and the other lines are encoded in order
C6_SoftFailuresReported ==
    pc = "returned" =>
        \A i \in DOMAIN lines :
            (lines[i].kind = "instr" /\ ~Truthy(bytecodes[i])) =>
                /\ i \in Range(diagnostics)
                /\ Contributed(i) = 0

\* width in bytes of the destination register of a mov reg, imm line
DestBytes(line) ==
    LET ty == get_reg_num(line.args[1].name).type
    IN  IF ty = "REG_8" THEN 1 ELSE IF ty = "REG_16" THEN 2
        ELSE IF ty = "REG_32" THEN 4 ELSE 8

\* -2^(w-1) <= imm <= 2^w - 1 for a destination of n bytes
InCombinedRange(imm, n) == BigBetween(Big(TRUE, HalfMag(n)), imm, Big(FALSE, Ones(n)))

\* C7: mov reg, imm with a destination of width w is encoded exactly when
\* -2^(w-1) <= imm <= 2^w - 1, whatever the width, and an encoded immediate is
\* the low w bits of the value
C7_MovImmRange ==
    assembled =>
        LET n == DestBytes(instruction)
            imm == instruction.args[2].val
        IN  /\ Truthy(bytecode) <=> InCombinedRange(imm, n)
            /\ Truthy(bytecode) =>
                 /\ Len(bytecode.bytes) > n
                 /\ \/ ToBytesSigned(imm, n).ok
                       /\ SubSeq(bytecode.bytes, Len(bytecode.bytes) - n + 1,
                                 Len(bytecode.bytes)) = ToBytesSigned(imm, n).bytes
                    \/ ~imm.neg
                       /\ SubSeq(bytecode.bytes, Len(bytecode.bytes) - n + 1,
                                 Len(bytecode.bytes)) = Pad(imm.mag, n)

\* compile has returned, or has raised
CompileEnded == gen_pc \in {"returned", "raised"}

\* the lines of the output that end a function: its trailing empty line
BlankPositions == {k \in DOMAIN asm_lines : asm_lines[k] = BlankLine}

\* the part of the output the i-th function of the program emitted
SegEnd(i) ==
    CHOOSE k \in BlankPositions : Cardinality({j \in BlankPositions : j <= k}) = i
SegStart(i) == IF i = 1 THEN 1 ELSE SegEnd(i - 1) + 1
Segment(i) == SegStart(i)..SegEnd(i)

\* how many lines of the i-th function are the line l
CountIn(i, l) == Cardinality({k \in Segment(i) : asm_lines[k] = l})

\* the number of return statements of a block, nested ones included
RECURSIVE Returns(_)
Returns(block) ==
    IF block = <<>> THEN 0
    ELSE LET st == Head(block)
         IN  (IF st.kind = "Return" THEN 1 ELSE 0) + Returns(st.block)
               + Returns(st.else_block) + Returns(Tail(block))

\* a return statement inside a while of the block
RECURSIVE ReturnInWhile(_)
ReturnInWhile(block) ==
    \E k \in DOMAIN block :
        \/ block[k].kind = "While" /\ Returns(block[k].block) > 0
        \/ ReturnInWhile(block[k].block)
        \/ ReturnInWhile(block[k].else_block)

\* C8: every function of a compiled program has one definition of its epilog
\* label and one pop rbp / ret exit sequence, after that label, and each of
\* its return statements, however nested, is a jmp to that label
C8_SingleEpilog ==
    gen_pc = "returned" =>
        /\ Cardinality(BlankPositions) = Len(program)
        /\ \A i \in DOMAIN program :
             LET epilog == program[i].name \o "_epilog"
             IN  /\ CountIn(i, LabelLine(epilog)) = 1
                 /\ CountIn(i, Ins0("ret")) = 1
                 /\ CountIn(i, Ins1("pop", Reg("rbp"))) = 1
                 /\ asm_lines[SegEnd(i) - 1] = Ins0("ret")
                 /\ asm_lines[SegEnd(i) - 2] = Ins1("pop", Reg("rbp"))
                 /\ \E k \in Segment(i) : /\ asm_lines[k] = LabelLine(epilog)
                                          /\ k < SegEnd(i) - 2
                 /\ CountIn(i, Ins1("jmp", Sym(epilog))) = Returns(program[i].body)
                 /\ \A n \in FuncNames \ {program[i].name} :
                      CountIn(i, Ins1("jmp", Sym(n \o "_epilog"))) = 0

\* a function with two returns, one of them inside a while, has been compiled
C8_Witness ==
    /\ gen_pc = "returned"
    /\ \E i \in DOMAIN program : /\ Returns(program[i].body) >= 2
                                 /\ ReturnInWhile(program[i].body)

\* a break or continue of the block that is in no while of the block
RECURSIVE Loose(_)
Loose(block) ==
    \E k \in DOMAIN block :
        \/ block[k].kind \in {"Break", "Continue"}
        \/ block[k].kind = "If" /\ (Loose(block[k].block) \/ Loose(block[k].else_block))

\* C9: in every compile call on a generator, fresh or used before, the loop
\* stack is empty when generation starts, outside every loop, and a program
\* with a break or continue outside every while never compiles: it raises
C9_BreakOutsideLoopFatal ==
    /\ gen_pc = "compiling" => loop_stack = <<>>
    /\ gen_pc = "returned" => \A i \in DOMAIN program : ~Loose(program[i].body)

\* the program is one function of one expression statement, a call
IsTopCall ==
    /\ Len(program) = 1
    /\ Len(program[1].body) = 1
    /\ program[1].body[1].kind = "ExprStatement"
    /\ program[1].body[1].expression.kind = "Call"

TopCall == program[1].body[1].expression

\* the pushes an expression calls for: one per argument of a call, one per
\* binary operator, and those of the operands
RECURSIVE Pushes(_)
RECURSIVE SumPushes(_, _)
SumPushes(args, i) == IF i > Len(args) THEN 0 ELSE Pushes(args[i]) + SumPushes(args, i + 1)
Pushes(e) ==
    (IF e.kind = "Call" THEN Len(e.args) ELSE IF e.kind = "BinaryOp" THEN 1 ELSE 0)
      + SumPushes(e.args, 1)

CountLines(l) == Cardinality({k \in DOMAIN asm_lines : asm_lines[k] = l})

\* C10: a call of more than six arguments raises with nothing emitted after
\* the prolog; a call of at most six arguments, once compiled, has one push
\* and one pop for each argument, and it compiles when its arguments do
C10_CallArity ==
    CompileEnded /\ IsTopCall =>
        /\ Len(TopCall.args) > 6 =>
             /\ gen_pc = "raised"
             /\ Len(asm_lines) = 3 + (IF program[1].stack_size > 0 THEN 1 ELSE 0)
        /\ Len(TopCall.args) <= 6 /\ gen_pc = "returned" =>
             /\ CountLines(Ins1("push", Reg("rax"))) = Pushes(TopCall)
             /\ CountLines(Ins1("pop", Reg("rax"))) = Pushes(TopCall)
             /\ Pushes(TopCall) >= Len(TopCall.args)
        /\ Len(TopCall.args) <= 6 /\ (\A k \in DOMAIN TopCall.args : TopCall.args[k] \in Atoms)
             => gen_pc = "returned"

\* a call of seven arguments has raised
C10_Witness ==
    /\ gen_pc = "raised"
    /\ IsTopCall
    /\ Len(TopCall.args) = 7
    /\ error = "NotImplementedError"

-----------------------------------------------------------------------------
(* The calling convention *)

\* the move of the accumulator into the register of argument i at the width
\* of the type
ArgMove(i, type) ==
    IF type \in {"i64", "u64"} THEN Ins2("mov", Reg(arg_regs_64[i]), Reg("rax"))
    ELSE Ins2("mov", Reg(arg_regs_32[i]), Reg("eax"))

\* the arguments of the call are literals and locals
PlainArgs(call) == \A k \in DOMAIN call.args : call.args[k].kind \in {"Literal", "Identifier"}

\* C11: a compiled call of at most six arguments moves each argument into
\* its argument register at the width of the argument's type: a 64-bit
\* argument in position i goes to the 64-bit register from rax
C11_ArgWidths ==
    gen_pc = "returned" /\ IsTopCall /\ PlainArgs(TopCall) =>
        \A i \in DOMAIN TopCall.args :
            CountLines(ArgMove(i, TopCall.args[i].inferred_type)) = 1

-----------------------------------------------------------------------------
(* The x86-64 machine the emitted lines run on, with forward jumps        *)
(* of a function body.  A register holds 8 bytes, little endian; the frame *)
(* is addressed from rbp; the stack holds 8-byte slots.                    *)

\* two's complement arithmetic on byte strings of equal length
RECURSIVE AddWith(_, _, _)
AddWith(a, b, carry) ==
    IF a = <<>> THEN <<>>
    ELSE <<(a[1] + b[1] + carry) % 256>>
           \o AddWith(Tail(a), Tail(b), (a[1] + b[1] + carry) \div 256)

AddBytes(a, b) == AddWith(a, b, 0)
SubBytes(a, b) == AddWith(a, Invert(b), 1)
NegBytes(a) == AddOne(Invert(a))

RECURSIVE Scale(_, _, _)
Scale(a, k, carry) ==
    IF a = <<>> THEN <<>>
    ELSE <<(a[1] * k + carry) % 256>> \o Scale(Tail(a), k, (a[1] * k + carry) \div 256)

\* the low Len(a) bytes of the product
RECURSIVE MulBytes(_, _)
MulBytes(a, b) ==
    IF b = <<>> THEN Zeros(Len(a))
    ELSE AddBytes(Scale(a, b[1], 0), SubSeq(<<0>> \o MulBytes(a, Tail(b)), 1, Len(a)))

BitOf(kind, x, y) ==
    CASE kind = "and" -> x * y
      [] kind = "or" -> x + y - x * y
      [] kind = "xor" -> (x + y) % 2

RECURSIVE ByteOp(_, _, _, _)
ByteOp(kind, a, b, n) ==
    IF n = 0 THEN 0
    ELSE BitOf(kind, a % 2, b % 2) + 2 * ByteOp(kind, a \div 2, b \div 2, n - 1)

Bitwise(kind, a, b) == [i \in DOMAIN a |-> ByteOp(kind, a[i], b[i], 8)]

SignByte(bs) == IF bs[Len(bs)] >= 128 THEN 255 ELSE 0
SignExtend(bs, n) == bs \o Repeat(<<SignByte(bs)>>, n - Len(bs))
ZeroExtend(bs, n) == bs \o Zeros(n - Len(bs))

\* shifts by one bit, and by k bits
ShlOne(bs) == AddBytes(bs, bs)
ShrOne(bs, fill) ==
    [i \in DOMAIN bs |->
        bs[i] \div 2 + 128 * (IF i = Len(bs) THEN fill ELSE bs[i + 1] % 2)]

RECURSIVE ShlBytes(_, _)
ShlBytes(bs, k) == IF k = 0 THEN bs ELSE ShlBytes(ShlOne(bs), k - 1)

RECURSIVE ShrBytes(_, _)
ShrBytes(bs, k) == IF k = 0 THEN bs ELSE ShrBytes(ShrOne(bs, 0), k - 1)

RECURSIVE SarBytes(_, _)
SarBytes(bs, k) == IF k = 0 THEN bs ELSE SarBytes(ShrOne(bs, SignByte(bs) % 2), k - 1)

\* an unbounded integer as n bytes of two's complement, wrapped
TwosComplement(x, n) ==
    IF x.neg THEN NegBytes(SubSeq(x.mag \o Zeros(n), 1, n))
    ELSE SubSeq(x.mag \o Zeros(n), 1, n)

\* a small integer as n bytes, and back
Bytes(v, n) == TwosComplement(FromInt(v), n)

\* the integer a signed or unsigned magnitude stands for
BigValue(x) == IF x.neg THEN - UnsignedValue(x.mag) ELSE UnsignedValue(x.mag)

\* division truncating towards zero, as idiv does
Magnitude(v) == IF v < 0 THEN -v ELSE v
Quotient(a, b) ==
    IF (a < 0) = (b < 0) THEN Magnitude(a) \div Magnitude(b)
    ELSE - (Magnitude(a) \div Magnitude(b))
Remainder(a, b) == a - b * Quotient(a, b)


\* the registers: each name is a view of some width on a 64-bit register
Views ==
    [rax |-> <<"rax", 8>>, eax |-> <<"rax", 4>>, ax |-> <<"rax", 2>>, al |-> <<"rax", 1>>,
     rcx |-> <<"rcx", 8>>, ecx |-> <<"rcx", 4>>, cl |-> <<"rcx", 1>>,
     rdx |-> <<"rdx", 8>>, edx |-> <<"rdx", 4>>,
     rsi |-> <<"rsi", 8>>, esi |-> <<"rsi", 4>>,
     rdi |-> <<"rdi", 8>>, edi |-> <<"rdi", 4>>,
     r8 |-> <<"r8", 8>>, r8d |-> <<"r8", 4>>,
     r9 |-> <<"r9", 8>>, r9d |-> <<"r9", 4>>,
     r10 |-> <<"r10", 8>>, r11 |-> <<"r11", 8>>]

\* the registers a called function may overwrite
CallerSaved == {"rax", "rcx", "rdx", "rsi", "rdi", "r8", "r9", "r10", "r11"}

WidthOf(name) == Views[name][2]

\* the bytes of size keywords
KwBytes == [byte |-> 1, word |-> 2, dword |-> 4, qword |-> 8]

\* what a call leaves in the registers it does not return a value in
Clobbered == <<204, 204, 204, 204, 204, 204, 204, 204>>

\* what the registers hold before the body runs
Stale == <<170, 170, 170, 170, 170, 170, 170, 170>>

\* the flags before a cmp has set them
NoFlags == [known |-> FALSE, zf |-> FALSE, sf |-> FALSE, of |-> FALSE, cf |-> FALSE]

\* a < b for unsigned values of the same number of bytes
RECURSIVE Below(_, _)
Below(a, b) ==
    IF a = <<>> THEN FALSE
    ELSE IF a[Len(a)] # b[Len(b)] THEN a[Len(a)] < b[Len(b)]
    ELSE Below(SubSeq(a, 1, Len(a) - 1), SubSeq(b, 1, Len(b) - 1))

Negative(a) == a[Len(a)] >= 128

\* the flags cmp a, b leaves: those of a - b
CmpFlags(a, b) ==
    [known |-> TRUE,
     zf |-> a = b,
     sf |-> Negative(SubBytes(a, b)),
     of |-> Negative(a) # Negative(b) /\ Negative(SubBytes(a, b)) # Negative(a),
     cf |-> Below(a, b)]

\* the condition of a conditional jump on the flags
Taken(op, f) ==
    CASE op \in {"je", "jz"} -> f.zf
      [] op \in {"jne", "jnz"} -> ~f.zf
      [] op \in {"jl", "jnge"} -> f.sf # f.of
      [] op \in {"jge", "jnl"} -> f.sf = f.of
      [] op \in {"jle", "jng"} -> f.zf \/ f.sf # f.of
      [] op \in {"jg", "jnle"} -> ~f.zf /\ f.sf = f.of
      [] op \in {"jb", "jnae"} -> f.cf
      [] op \in {"jae", "jnb"} -> ~f.cf
      [] op \in {"jbe", "jna"} -> f.cf \/ f.zf
      [] op \in {"ja", "jnbe"} -> ~f.cf /\ ~f.zf

\* the machine before the body: rets are the values the calls return, in
\* the order of the calls, and mem is the frame, a byte for each offset
Machine(rets, mem) ==
    [reg |-> [r \in CallerSaved |-> Stale], stack |-> <<>>, mem |-> mem, rets |-> rets,
     calls |-> <<>>, fault |-> FALSE, left |-> FALSE, flags |-> NoFlags, goto |-> ""]

ReadReg(m, name) == SubSeq(m.reg[Views[name][1]], 1, WidthOf(name))

\* a write of 4 bytes clears the upper half; of 1 or 2 bytes keeps the rest
WriteReg(m, name, bs) ==
    [m EXCEPT !.reg[Views[name][1]] =
        IF WidthOf(name) >= 4 THEN ZeroExtend(bs, 8)
        ELSE bs \o SubSeq(@, WidthOf(name) + 1, 8)]

LoadMem(m, disp, n) == [i \in 1..n |-> m.mem[BigValue(disp) + i - 1]]

StoreMem(m, disp, bs) ==
    [m EXCEPT !.mem = [a \in DOMAIN @ |->
        IF a - BigValue(disp) \in 0..(Len(bs) - 1) THEN bs[a - BigValue(disp) + 1]
        ELSE @[a]]]

Fault(m) == [m EXCEPT !.fault = TRUE]

\* the kind of an operand: a register of the machine, the frame, or another
Tag(a) ==
    IF a.t = "reg" THEN (IF a.name \in DOMAIN Views THEN "reg" ELSE "other")
    ELSE IF a.t = "mem" THEN (IF a.name = "rbp" THEN "mem" ELSE "other")
    ELSE IF a.t = "kw" THEN (IF a.name \in DOMAIN KwBytes THEN "kw" ELSE "other")
    ELSE a.t

Shape(l) == [i \in DOMAIN l.args |-> Tag(l.args[i])]

Alu(op, a, b) ==
    CASE op = "add" -> AddBytes(a, b)
      [] op = "sub" -> SubBytes(a, b)
      [] op \in {"and", "or", "xor"} -> Bitwise(op, a, b)

Shift(op, a, k) ==
    CASE op = "shl" -> ShlBytes(a, k)
      [] op = "shr" -> ShrBytes(a, k)
      [] op = "sar" -> SarBytes(a, k)

\* imul r/m32: edx:eax is the signed product p of 8 bytes
Imul32(m, p) == WriteReg(WriteReg(m, "eax", SubSeq(p, 1, 4)), "edx", SubSeq(p, 5, 8))

MinInt32 == <<0, 0, 0, 128>>

\* idiv r/m32 on the dividend edx:eax and the divisor d: a divide error for a
\* zero divisor and for a quotient that does not fit; the dividends it is
\* run on are sign extensions of eax above -2^31
Idiv32(m, d) ==
    IF \/ d = <<0, 0, 0, 0>> \/ d = MinInt32 \/ ReadReg(m, "eax") = MinInt32
       \/ ReadReg(m, "edx") # Repeat(<<SignByte(ReadReg(m, "eax"))>>, 4)
    THEN Fault(m)
    ELSE WriteReg(WriteReg(m, "eax",
                           Bytes(Quotient(SignedValue(ReadReg(m, "eax")), SignedValue(d)), 4)),
                  "edx", Bytes(Remainder(SignedValue(ReadReg(m, "eax")), SignedValue(d)), 4))

\* call: the callee sees the registers and the stack depth, returns the next
\* value in rax and leaves every other caller-saved register overwritten
CallStep(m, name) ==
    IF m.rets = <<>> THEN Fault(m)
    ELSE [m EXCEPT !.calls = Append(@, [name |-> name, reg |-> m.reg,
                                        depth |-> Len(m.stack)]),
                   !.reg = [r \in CallerSaved |->
                               IF r = "rax" THEN Head(m.rets) ELSE Clobbered],
                   !.rets = Tail(@)]

PopStep(m, name) ==
    IF m.stack = <<>> THEN Fault(m)
    ELSE [WriteReg(m, name, m.stack[Len(m.stack)])
             EXCEPT !.stack = SubSeq(@, 1, Len(@) - 1)]

\* one line: a label is no instruction, a jump names where to go on
Step(m, l) ==
    CASE l.kind = "label" -> m
      [] l.kind # "instr" -> Fault(m)
      [] l.op = "cmp" /\ Shape(l) = <<"reg", "reg">> ->
         IF WidthOf(l.args[1].name) # WidthOf(l.args[2].name) THEN Fault(m)
         ELSE [m EXCEPT !.flags = CmpFlags(ReadReg(m, l.args[1].name),
                                           ReadReg(m, l.args[2].name))]
      [] l.op = "cmp" /\ Shape(l) = <<"reg", "imm">> ->
         [m EXCEPT !.flags =
             CmpFlags(ReadReg(m, l.args[1].name),
                      TwosComplement(l.args[2].val, WidthOf(l.args[1].name)))]
      [] l.op \in JumpOps \ {"jmp"} /\ Shape(l) = <<"sym">> ->
         IF ~m.flags.known THEN Fault(m)
         ELSE IF Taken(l.op, m.flags) THEN [m EXCEPT !.goto = l.args[1].name]
         ELSE m
      [] l.op = "mov" /\ Shape(l) = <<"reg", "imm">> ->
         WriteReg(m, l.args[1].name,
                  TwosComplement(l.args[2].val, WidthOf(l.args[1].name)))
      [] l.op = "mov" /\ Shape(l) = <<"reg", "reg">> ->
         IF WidthOf(l.args[1].name) # WidthOf(l.args[2].name) THEN Fault(m)
         ELSE WriteReg(m, l.args[1].name, ReadReg(m, l.args[2].name))
      [] l.op = "mov" /\ Shape(l) = <<"reg", "mem">> ->
         WriteReg(m, l.args[1].name,
                  LoadMem(m, l.args[2].val, WidthOf(l.args[1].name)))
      [] l.op = "mov" /\ Shape(l) = <<"reg", "kw", "mem">> ->
         IF KwBytes[l.args[2].name] # WidthOf(l.args[1].name) THEN Fault(m)
         ELSE WriteReg(m, l.args[1].name,
                       LoadMem(m, l.args[3].val, WidthOf(l.args[1].name)))
      [] l.op = "mov" /\ Shape(l) = <<"mem", "reg">> ->
         StoreMem(m, l.args[1].val, ReadReg(m, l.args[2].name))
      [] l.op = "mov" /\ Shape(l) = <<"kw", "mem", "reg">> ->
         IF KwBytes[l.args[1].name] # WidthOf(l.args[3].name) THEN Fault(m)
         ELSE StoreMem(m, l.args[2].val, ReadReg(m, l.args[3].name))
      [] l.op = "movsx" /\ Shape(l) = <<"reg", "kw", "mem">> ->
         IF KwBytes[l.args[2].name] >= WidthOf(l.args[1].name) THEN Fault(m)
         ELSE WriteReg(m, l.args[1].name,
                       SignExtend(LoadMem(m, l.args[3].val, KwBytes[l.args[2].name]),
                                  WidthOf(l.args[1].name)))
      [] l.op = "movzx" /\ Shape(l) = <<"reg", "kw", "mem">> ->
         IF KwBytes[l.args[2].name] >= WidthOf(l.args[1].name) THEN Fault(m)
         ELSE WriteReg(m, l.args[1].name,
                       ZeroExtend(LoadMem(m, l.args[3].val, KwBytes[l.args[2].name]),
                                  WidthOf(l.args[1].name)))
      [] l.op = "push" /\ Shape(l) = <<"reg">> /\ WidthOf(l.args[1].name) = 8 ->
         [m EXCEPT !.stack = Append(@, ReadReg(m, l.args[1].name))]
      [] l.op = "pop" /\ Shape(l) = <<"reg">> /\ WidthOf(l.args[1].name) = 8 ->
         PopStep(m, l.args[1].name)
      [] l.op \in {"add", "sub", "and", "or", "xor"} /\ Shape(l) = <<"reg", "reg">> ->
         IF WidthOf(l.args[1].name) # WidthOf(l.args[2].name) THEN Fault(m)
         ELSE WriteReg(m, l.args[1].name,
                       Alu(l.op, ReadReg(m, l.args[1].name), ReadReg(m, l.args[2].name)))
      [] l.op \in {"add", "sub", "and", "or", "xor"} /\ Shape(l) = <<"reg", "imm">> ->
         WriteReg(m, l.args[1].name,
                  Alu(l.op, ReadReg(m, l.args[1].name),
                      TwosComplement(l.args[2].val, WidthOf(l.args[1].name))))
      [] l.op = "neg" /\ Shape(l) = <<"reg">> ->
         WriteReg(m, l.args[1].name, NegBytes(ReadReg(m, l.args[1].name)))
      [] l.op = "imul" /\ Shape(l) = <<"reg">> /\ WidthOf(l.args[1].name) = 4 ->
         Imul32(m, MulBytes(SignExtend(ReadReg(m, "eax"), 8),
                            SignExtend(ReadReg(m, l.args[1].name), 8)))
      [] l.op = "cdq" /\ l.args = <<>> ->
         WriteReg(m, "edx", Repeat(<<SignByte(ReadReg(m, "eax"))>>, 4))
      [] l.op = "idiv" /\ Shape(l) = <<"reg">> /\ WidthOf(l.args[1].name) = 4 ->
         Idiv32(m, ReadReg(m, l.args[1].name))
      [] l.op \in {"shl", "shr", "sar"} /\ Shape(l) = <<"reg", "reg">>
           /\ l.args[2].name = "cl" /\ WidthOf(l.args[1].name) = 4 ->
         WriteReg(m, l.args[1].name,
                  Shift(l.op, ReadReg(m, l.args[1].name), ReadReg(m, "cl")[1] % 32))
      [] l.op = "call" /\ Shape(l) = <<"sym">> -> CallStep(m, l.args[1].name)
      [] l.op = "jmp" /\ Shape(l) = <<"sym">> -> [m EXCEPT !.goto = l.args[1].name]
      [] OTHER -> Fault(m)

\* the lines after the i-th that define the label
Ahead(code, i, label) == {p \in (i + 1)..Len(code) : code[p] = LabelLine(label)}

\* the flags are those of a cmp only for the jump that follows it; a jump
\* to a label that is not ahead in the lines leaves them
Settle(m, code, i) ==
    [m EXCEPT !.flags = IF code[i].kind = "instr" /\ code[i].op = "cmp" THEN @
                        ELSE NoFlags,
              !.left = @ \/ (m.goto # "" /\ Ahead(code, i, m.goto) = {}),
              !.goto = ""]

\* the line that runs after the i-th
Following(m, code, i) ==
    IF m.goto # "" /\ Ahead(code, i, m.goto) # {}
    THEN CHOOSE p \in Ahead(code, i, m.goto) : \A q \in Ahead(code, i, m.goto) : p <= q
    ELSE i + 1

\* the lines from the i-th on, until control leaves them or the machine faults
RECURSIVE Execute(_, _, _)
RECURSIVE Proceed(_, _, _)
Proceed(m, code, i) == Execute(Settle(m, code, i), code, Following(m, code, i))
Execute(m, code, i) ==
    IF m.fault \/ m.left \/ i > Len(code) THEN m
    ELSE Proceed(Step(m, code[i]), code, i)


-----------------------------------------------------------------------------
(* The body of a compiled function on the machine *)

\* the program is one function of one expression statement
IsTopExpr ==
    /\ Len(program) = 1
    /\ Len(program[1].body) = 1
    /\ program[1].body[1].kind = "ExprStatement"

TopExpr == program[1].body[1].expression

\* the lines of the first function between its prolog and its epilog label
EpilogAt ==
    CHOOSE k \in DOMAIN asm_lines : asm_lines[k] = LabelLine(program[1].name \o "_epilog")

BodyCode == SubSeq(asm_lines, Len(Prolog(program[1])) + 1, EpilogAt - 1)

\* a frame of 16 bytes below rbp
Frame(bs) == [a \in (-16)..(-1) |-> bs[a + 17]]
ZeroFrame == Frame(Zeros(16))

\* a 32-bit value returned in rax: the upper half of rax is not defined
Ret32(v) == Bytes(v, 4) \o <<238, 238, 238, 238>>

ArithmeticOps == {"+", "-", "*", "/", "%", "&", "|", "^", "<<", ">>"}

\* the operands the operators are run on
Operands32 == {-2147483647, -3, -1, 0, 1, 2, 6, 7, 31, 2147483647}

\* the operator applied to l in eax and r in ecx, with nothing in between
Direct(op, l, r) ==
    Execute(WriteReg(WriteReg(Machine(<<>>, ZeroFrame), "eax", Bytes(l, 4)),
                     "ecx", Bytes(r, 4)),
            OperatorLines(op, "i32"), 1)

RECURSIVE NatBits(_, _, _)
NatBits(kind, a, b) ==
    IF a = 0 /\ b = 0 THEN 0
    ELSE BitOf(kind, a % 2, b % 2) + 2 * NatBits(kind, a \div 2, b \div 2)

RECURSIVE Pow2(_)
Pow2(n) == IF n = 0 THEN 1 ELSE 2 * Pow2(n - 1)

\* the operands on which the result of the operator is a small integer
\* whatever the convention of the language for the rest
Small(op, l, r) ==
    /\ l \in (-8)..8 /\ r \in (-8)..8
    /\ op \in {"/", "%"} => l >= 0 /\ r > 0
    /\ op \in {"&", "|", "^"} => l >= 0 /\ r >= 0
    /\ op \in {"<<", ">>"} => r >= 0

\* the result of the operator on small operands
Expected(op, l, r) ==
    CASE op = "+" -> l + r
      [] op = "-" -> l - r
      [] op = "*" -> l * r
      [] op = "/" -> l \div r
      [] op = "%" -> l % r
      [] op = "&" -> NatBits("and", l, r)
      [] op = "|" -> NatBits("or", l, r)
      [] op = "^" -> NatBits("xor", l, r)
      [] op = "<<" -> l * Pow2(r)
      [] op = ">>" -> l \div Pow2(r)

\* the program is one binary operator on the results of two calls
IsSpillCase ==
    /\ IsTopExpr
    /\ TopExpr.kind = "BinaryOp"
    /\ TopExpr.name \in ArithmeticOps
    /\ \A k \in 1..2 : TopExpr.args[k].kind = "Call" /\ TopExpr.args[k].args = <<>>

\* m, the machine after the body, agrees with d, the operator applied to
\* l and r directly
Combined(m, d, op, l, r) ==
    /\ m.fault = d.fault
    /\ ~m.fault =>
         /\ ReadReg(m, "eax") = ReadReg(d, "eax")
         /\ Small(op, l, r) => ReadReg(m, "eax") = Bytes(Expected(op, l, r), 4)
         /\ m.stack = <<>>
         /\ Len(m.calls) = 2

\* C12: for each arithmetic, bitwise and shift operator on 32-bit operands
\* the emitted sequence combines the value of the left operand with the
\* value of the right one, when the right operand is a call that overwrites
\* every caller-saved register and leaves the stack balanced
C12_SpillDiscipline ==
    gen_pc = "returned" /\ IsSpillCase =>
        \A l \in Operands32, r \in Operands32 :
            Combined(Execute(Machine(<<Ret32(l), Ret32(r)>>, ZeroFrame), BodyCode, 1),
                     Direct(TopExpr.name, l, r), TopExpr.name, l, r)

\* a remainder of the results of two calls has been compiled
C12_Witness ==
    /\ gen_pc = "returned"
    /\ IsSpillCase
    /\ TopExpr.name = "%"
    /\ Len(BodyCode) = 8


\* the values the 64-bit local y is given
Values64 ==
    {Bytes(1, 8), Bytes(3, 8), Bytes(-1, 8), <<0, 0, 0, 0, 1, 0, 0, 0>>,
     <<5, 0, 0, 0, 1, 0, 0, 0>>}

\* the frame with y = v and x = 0
WideFrame(v) == Frame(v \o Zeros(8))

\* the operator on v and v, modulo 2^64
Expected64(op, v) ==
    CASE op = "+" -> AddBytes(v, v)
      [] op = "*" -> MulBytes(v, v)
      [] op \in {"-", "^", "%"} -> Zeros(8)
      [] op = "/" -> Bytes(1, 8)
      [] op \in {"&", "|"} -> v
      [] op = "<<" -> ShlBytes(v, v[1] % 64)
      [] op = ">>" -> SarBytes(v, v[1] % 64)

\* the program is one expression of a 64-bit type: the local y, a literal,
\* or an arithmetic, bitwise or shift operator on y and y
IsWideCase ==
    /\ IsTopExpr
    /\ TopExpr.inferred_type \in {"i64", "u64"}
    /\ \/ TopExpr \in {Wide, Literal(<<"1">>, "i64")}
       \/ /\ TopExpr.kind = "BinaryOp"
          /\ TopExpr.name \in ArithmeticOps
          /\ TopExpr.args = <<Wide, Wide>>

\* the value of the expression when y = v
WideValue(e, v) ==
    CASE e.kind = "Identifier" -> v
      [] e.kind = "Literal" -> Bytes(parse_literal_value(e.value), 8)
      [] e.kind = "BinaryOp" -> Expected64(e.name, v)

\* C13: an expression of a 64-bit type, an operator on two 64-bit operands
\* included, leaves its full result, taken modulo 2^64, in rax
C13_WideResults ==
    gen_pc = "returned" /\ IsWideCase =>
        \A v \in Values64 :
            ReadReg(Execute(Machine(<<>>, WideFrame(v)), BodyCode, 1), "rax")
                = WideValue(TopExpr, v)


\* the values in range for a type, as the accumulator of the type holds them
InRange(type) ==
    CASE type = "i8" -> {Bytes(-128, 4), Bytes(-1, 4), Bytes(0, 4), Bytes(127, 4)}
      [] type = "u8" -> {Bytes(0, 4), Bytes(128, 4), Bytes(255, 4)}
      [] type = "i16" -> {Bytes(-32768, 4), Bytes(-1, 4), Bytes(300, 4), Bytes(32767, 4)}
      [] type = "u16" -> {Bytes(7, 4), Bytes(32768, 4), Bytes(65535, 4)}
      [] type = "i32" -> {<<0, 0, 0, 128>>, Bytes(-1, 4), Bytes(70000, 4),
                          Bytes(2147483647, 4)}
      [] type = "u32" -> {Bytes(1, 4), <<0, 0, 0, 128>>, <<255, 255, 255, 255>>}
      [] type = "i64" -> {<<0, 0, 0, 0, 0, 0, 0, 128>>, Bytes(-1, 8),
                          <<1, 2, 3, 4, 5, 6, 7, 8>>}
      [] type = "u64" -> {<<255, 255, 255, 255, 255, 255, 255, 255>>,
                          <<0, 0, 0, 0, 1, 0, 0, 0>>}

TypeBytes(type) ==
    CASE type \in {"i8", "u8"} -> 1
      [] type \in {"i16", "u16"} -> 2
      [] type \in {"i32", "u32"} -> 4
      [] type \in {"i64", "u64"} -> 8

\* the accumulator of a type
Acc(type) == IF type \in {"i64", "u64"} THEN "rax" ELSE "eax"

\* rax with the value in its accumulator
RaxWith(val) == val \o Repeat(<<238>>, 8 - Len(val))

\* what the frame holds before the body runs
JunkFrame == Frame(Repeat(<<85>>, 16))

\* the program stores the result of a call to a local and reads the local
\* after another call
IsRoundTrip ==
    /\ Len(program) = 1
    /\ Len(program[1].body) = 3
    /\ program[1].body[1].kind \in {"VarDecl", "Assignment"}
    /\ program[1].body[1].expression = CallOf(0)
    /\ program[1].body[2] = ExprStatement(CallOf(0))
    /\ program[1].body[3] = ExprStatement(program[1].body[1].target)

Local == program[1].body[1].target

\* the operation that loads a local of the type
LoadOp(type) ==
    CASE type \in {"i8", "i16"} -> "movsx"
      [] type \in {"u8", "u16"} -> "movzx"
      [] OTHER -> "mov"

\* m, the machine after the body, holds val in the accumulator and in the
\* bytes of the local, and nothing else of the frame was written
RoundTripped(m, type, val) ==
    /\ ~m.fault
    /\ ReadReg(m, Acc(type)) = val
    /\ LoadMem(m, FromInt(-16), 16)
         = SubSeq(val, 1, TypeBytes(type)) \o Repeat(<<85>>, 16 - TypeBytes(type))

\* C14: a value in range for a width and a signedness, stored to a local of
\* that type by a declaration or an assignment and loaded again, comes back
\* in the accumulator unchanged; the store writes the bytes of the declared
\* width and only the loads of 8- and 16-bit locals extend, by sign or by zero
C14_StoreLoadRoundTrip ==
    gen_pc = "returned" /\ IsRoundTrip =>
        /\ Len(BodyCode) = 4
        /\ BodyCode[2].op = "mov"
        /\ BodyCode[4].op = LoadOp(Local.inferred_type)
        /\ \A val \in InRange(Local.inferred_type) :
               RoundTripped(Execute(Machine(<<RaxWith(val), Clobbered>>, JunkFrame),
                                    BodyCode, 1),
                            Local.inferred_type, val)

\* a signed 8-bit local has been assigned and read
C14_Witness ==
    /\ gen_pc = "returned"
    /\ IsRoundTrip
    /\ program[1].body[1].kind = "Assignment"
    /\ Local.inferred_type = "i8"
    /\ BodyCode[4].op = "movsx"


-----------------------------------------------------------------------------
(* The fatal errors of code generation *)

SupportedBinary ==
    {"+", "-", "*", "/", "%", "&", "|", "^", "<<", ">>", "==", "!=", "<", "<=", ">", ">="}

SupportedUnary == {"-", "!"}

\* the expression holds an expression or an operator of a kind that is not
\* supported, or a call of more than six arguments
RECURSIVE FatalExpr(_)
FatalExpr(e) ==
    \/ e.kind \notin {"Literal", "Identifier", "BinaryOp", "UnaryOp", "Call"}
    \/ e.kind = "BinaryOp" /\ e.name \notin SupportedBinary
    \/ e.kind = "UnaryOp" /\ e.name \notin SupportedUnary
    \/ e.kind = "Call" /\ Len(e.args) > 6
    \/ \E k \in DOMAIN e.args : FatalExpr(e.args[k])

\* the block holds a statement of a kind that is not supported, an
\* assignment to something else than an identifier, or such an expression
RECURSIVE FatalBlock(_)
FatalBlock(block) ==
    \E k \in DOMAIN block :
        \/ block[k].kind \notin {"VarDecl", "Assignment", "Return", "If", "While", "Break",
                                 "Continue", "ExprStatement"}
        \/ block[k].kind = "Assignment" /\ block[k].target.kind # "Identifier"
        \/ block[k].expression.kind # "None" /\ FatalExpr(block[k].expression)
        \/ FatalBlock(block[k].block)
        \/ FatalBlock(block[k].else_block)

\* C15: compile raises only for a statement, an expression or an operator of
\* a kind that is not supported, for a call of more than six arguments, and
\* for a break or continue outside a loop; every other program compiles,
\* one that reads a parameter of the function included
C15_FatalOnlyForUnsupported ==
    gen_pc = "raised" =>
        \E i \in DOMAIN program : FatalBlock(program[i].body) \/ Loose(program[i].body)


-----------------------------------------------------------------------------
(* Calls on the machine *)

\* the value the k-th call of the body returns
RetOf(k) == Bytes(10 + k, 4) \o <<238, 238, 238, 238>>

\* the arguments of the call are calls without arguments, or each is the
\* literal 1 or the 64-bit local y
IsArgsCase ==
    /\ IsTopCall
    /\ Len(TopCall.args) <= 6
    /\ \/ \A k \in DOMAIN TopCall.args : TopCall.args[k] = CallOf(0)
       \/ \A k \in DOMAIN TopCall.args : TopCall.args[k] \in {One, Wide}

\* the value of argument i of the call when y = v
ArgValue(call, i, v) ==
    CASE call.args[i].kind = "Call" -> Bytes(10 + i, 4)
      [] call.args[i].kind = "Literal" -> Bytes(parse_literal_value(call.args[i].value), 4)
      [] call.args[i].kind = "Identifier" -> v

\* the register of argument i at the width of a type
ArgReg(i, type) == IF type \in {"i64", "u64"} THEN arg_regs_64[i] ELSE arg_regs_32[i]

\* the calls among the arguments
ArgCalls(call) == {k \in DOMAIN call.args : call.args[k].kind = "Call"}

\* m is the machine after the body: the calls of the arguments ran in order,
\* each with the earlier arguments on the stack, and the call itself saw
\* every argument in its register and the stack as it was before
ArgsPassed(m, call, v) ==
    /\ ~m.fault
    /\ Len(m.calls) = Cardinality(ArgCalls(call)) + 1
    /\ \A k \in ArgCalls(call) : m.calls[k].depth = k - 1
    /\ m.calls[Len(m.calls)].depth = 0
    /\ m.stack = <<>>
    /\ \A i \in DOMAIN call.args :
           ReadReg(m.calls[Len(m.calls)], ArgReg(i, call.args[i].inferred_type))
               = ArgValue(call, i, v)

\* C16: the arguments of a call of at most six arguments are evaluated in
\* order and each is pushed after its evaluation; they are popped in
\* reverse into the argument registers, so that at the call instruction the
\* register of argument i holds the value of argument i, for every i, and
\* the stack is as deep as before the call expression
C16_ArgsInRegisters ==
    gen_pc = "returned" /\ IsArgsCase =>
        \A v \in Values64 :
            ArgsPassed(Execute(Machine([k \in 1..7 |-> RetOf(k)], WideFrame(v)),
                               BodyCode, 1),
                       TopCall, v)


-----------------------------------------------------------------------------
(* The instruction index in the passes of assemble_code *)

Prefix(k) == SubSeq(lines, 1, k - 1)

\* the index line k is given in pass 1
Pass1Index(k) ==
    Pass1Scan(Prefix(k), 1, [labels |-> NoLabels, addr |-> 0, idx |-> 0, warn |-> <<>>]).idx

\* the index line k is given in the analysis scan of the iteration to come
AnalysisIndex(k) == Analysis(Prefix(k), labels, jump_forms).idx

\* the index line k is given in the label recomputation of that iteration
RecomputeIndex(k) == Recompute(Prefix(k), Analysis(lines, labels, jump_forms).forms).idx

\* the index line k is given in the final pass to come
GenerateIndex(k) ==
    GenerateScan(Prefix(k), 1, [labels |-> labels, addr |-> 0, idx |-> 0, code |-> <<>>,
                                out |-> <<>>, diag |-> <<>>], jump_forms).idx

\* C17: an instruction line has the same instruction index in pass 1, in
\* the analysis scan and the label recomputation of every iteration and in
\* the final pass: label lines and lines without an encoding advance the
\* index in none of them
C17_SameIndexInEveryPass ==
    \A k \in DOMAIN lines :
        lines[k].kind = "instr" =>
            /\ pc = "relax" => /\ AnalysisIndex(k) = Pass1Index(k)
                               /\ RecomputeIndex(k) = Pass1Index(k)
            /\ pc = "final" => GenerateIndex(k) = Pass1Index(k)


-----------------------------------------------------------------------------
(* The label addresses a relaxation iteration leaves *)

\* a relaxation iteration has just recomputed the labels
Recomputed == enable_relaxation /\ iteration >= 1 /\ pc \in {"relax", "final"}

\* bytes of line k when every jump to a label has the size of its form in
\* the table, idx being the instruction index of the line
SizedBy(forms, k, idx) ==
    IF lines[k].kind # "instr" THEN 0
    ELSE IF IsLabelJump(k)
    THEN IF FormAt(forms, idx) = "short" THEN 2
         ELSE IF lines[k].op = "jmp" THEN 5 ELSE 6
    ELSE LET b == assemble_instr(lines[k], NoLabels, NoForms, 0, 0)
         IN  IF Truthy(b) THEN lines[k].rep * Len(b.bytes) ELSE 0

\* address and instruction index of line k in the layout the table describes
RECURSIVE LayoutAt(_, _)
LayoutAt(forms, k) ==
    IF k = 1 THEN [addr |-> 0, idx |-> 0]
    ELSE LET p == LayoutAt(forms, k - 1)
             n == SizedBy(forms, k - 1, p.idx)
         IN  [addr |-> p.addr + n,
              idx |-> IF n > 0 THEN p.idx + lines[k - 1].rep ELSE p.idx]

\* C18: after the label recomputation of an iteration every label has
\* the address of the layout in which each jump to a label, forward or
\* backward, has the size of its form in the updated table
C18_RecomputedLabels ==
    (Recomputed /\ UniqueLabels) =>
        \A k \in DOMAIN lines :
            lines[k].kind = "label" =>
                /\ lines[k].op \in DOMAIN labels
                /\ labels[lines[k].op] = LayoutAt(jump_forms, k).addr

\* the same, for streams whose jumps all name labels defined before them
C18_BackwardOnly ==
    (\A i \in DOMAIN lines :
        IsLabelJump(i) => \E d \in DefsOf(TargetOf(i)) : d < i)
    => C18_RecomputedLabels


-----------------------------------------------------------------------------
(* The control of the relaxation loop *)

NotConverged == "Relaxation konvergierte nicht"

\* the bytes the final pass generates from the fields it starts with
FinalBytes ==
    GenerateScan(lines, 1, [labels |-> labels, addr |-> 0, idx |-> 0, code |-> <<>>,
                            out |-> <<>>, diag |-> <<>>], jump_forms).code

\* a step of the loop: the iteration is counted and stays within the bound,
\* the loop ends exactly when the table is the one the iteration started with
\* or the bound is reached, and the warning is printed exactly when it is the
\* bound that ends it
LoopStep ==
    pc = "relax" =>
        /\ iteration' = iteration + 1
        /\ iteration' <= max_iterations
        /\ pc' = IF jump_forms' = jump_forms \/ iteration' = max_iterations
                 THEN "final" ELSE "relax"
        /\ warnings' = IF jump_forms' # jump_forms /\ iteration' = max_iterations
                       THEN Append(warnings, NotConverged)
                       ELSE warnings

\* the step after the loop: the final pass, on the table the loop left,
\* and its bytes are what the call returns
FinalStep ==
    pc = "final" =>
        /\ pc' = "returned"
        /\ jump_forms' = jump_forms
        /\ iteration' = iteration
        /\ warnings' = warnings
        /\ machine_code' = FinalBytes

\* C19: the relaxation loop runs at most max_iterations iterations and
\* ends at the first one that leaves the table as it found it; the warning is
\* printed exactly when max_iterations iterations end without that; then the
\* final pass runs once on the last table and its bytes are returned
C19_LoopControl == [][LoopStep /\ FinalStep]_vars

\* a call with relaxation has returned after max_iterations iterations that
\* all changed the table, with the warning and with bytes
C19_Witness ==
    /\ RelaxedReturned
    /\ iteration = max_iterations
    /\ ~converged
    /\ warnings = <<NotConverged>>
    /\ machine_code # <<>>

\* a call with relaxation has returned after a second iteration that left
\* the table unchanged, without warning
C19_Converged ==
    /\ RelaxedReturned
    /\ iteration = 2
    /\ converged
    /\ warnings = <<>>
    /\ jump_forms # NoForms


-----------------------------------------------------------------------------
(* The layout without relaxation *)

\* pass 1 of the call without relaxation is done, the final pass is to come
Pass1Done == ~enable_relaxation /\ pc = "final"

\* length of the near form of the jump on line i
NearLen(i) == IF lines[i].op = "jmp" THEN 5 ELSE 6

\* the bytes are a near jump: E9 rel32, or 0F 8x rel32
IsNearForm(i, bytes) ==
    /\ Len(bytes) = NearLen(i)
    /\ IF lines[i].op = "jmp" THEN bytes[1] = 233
       ELSE bytes[1] = 15 /\ bytes[2] \in 128..143

-----------------------------------------------------------------------------
(* break and continue in nested loops *)

\* the labels of the while that took the k-th label of the compile
CondLabel(k) == "while_cond_" \o ToString(k)
EndLabel(k) == "while_end_" \o ToString(k + 2)

\* the whiles of the output, each known by the number of its first label
Loops ==
    {k \in 0..label_counter :
        {LabelLine(CondLabel(k)), LabelLine(EndLabel(k))} \subseteq Range(asm_lines)}

PosOf(l) == CHOOSE p \in DOMAIN asm_lines : asm_lines[p] = l

\* line p is between the condition label and the end label of while k
Inside(p, k) ==
    /\ PosOf(LabelLine(CondLabel(k))) < p
    /\ p < PosOf(LabelLine(EndLabel(k)))

\* while k is the innermost while around line p
Innermost(p, k) ==
    /\ k \in Loops
    /\ Inside(p, k)
    /\ \A j \in Loops :
          Inside(p, j) => PosOf(LabelLine(CondLabel(j))) <= PosOf(LabelLine(CondLabel(k)))

\* the statements of a kind in a block, nested ones included
RECURSIVE CountKind(_, _)
CountKind(block, kind) ==
    IF block = <<>> THEN 0
    ELSE LET st == Head(block)
         IN  (IF st.kind = kind THEN 1 ELSE 0) + CountKind(st.block, kind)
               + CountKind(st.else_block, kind) + CountKind(Tail(block), kind)

RECURSIVE CountAll(_, _)
CountAll(i, kind) ==
    IF i > Len(program) THEN 0
    ELSE CountKind(program[i].body, kind) + CountAll(i + 1, kind)

\* the jumps of the output to the end label, or to the condition label, of a while
JumpsToEnd ==
    {p \in DOMAIN asm_lines :
        \E k \in 0..label_counter : asm_lines[p] = Ins1("jmp", Sym(EndLabel(k)))}
JumpsToCond ==
    {p \in DOMAIN asm_lines :
        \E k \in 0..label_counter : asm_lines[p] = Ins1("jmp", Sym(CondLabel(k)))}

\* every break and continue of the program is in a while
AllEnclosed == \A i \in DOMAIN program : ~Loose(program[i].body)

\* each break is a jump to the end label and each continue, like the back
\* edge of a while, a jump to the condition label of the innermost while
\* around it
LoweredToInnermost ==
    /\ Cardinality(JumpsToEnd) = CountAll(1, "Break")
    /\ Cardinality(JumpsToCond) = CountAll(1, "Continue") + CountAll(1, "While")
    /\ \A p \in JumpsToEnd \cup JumpsToCond : \A k \in 0..label_counter :
          asm_lines[p].args[1].name \in {EndLabel(k), CondLabel(k)} => Innermost(p, k)

\* C21: in a compiled program whose breaks and continues are all in a
\* while, however nested, each break jumps to the end label and each continue
\* to the condition label of the innermost while around it, also after an
\* inner while of the same body, and the compile leaves the loop stack as it
\* found it
C21_InnermostLoop ==
    [][(gen_pc' = "returned" /\ AllEnclosed')
          => (LoweredToInnermost' /\ loop_stack' = loop_stack)]_vars

\* three nested whiles have been compiled, with a break after the innermost
\* one and a continue after the middle one
C21_Witness ==
    /\ gen_pc = "returned"
    /\ program \in NestedLoops
    /\ program[1].body[1].block[2].block[3] = Break
    /\ program[1].body[1].block[3] = Continue
    /\ Cardinality(Loops) = 3


-----------------------------------------------------------------------------
(* Comparisons on the machine *)

ComparisonOps == {"==", "!=", "<", "<=", ">", ">="}

\* the relation a comparison operator stands for
Holds(op, l, r) ==
    CASE op = "==" -> l = r
      [] op = "!=" -> l # r
      [] op = "<" -> l < r
      [] op = "<=" -> l <= r
      [] op = ">" -> l > r
      [] op = ">=" -> l >= r

\* the program is one comparison of the results of two calls
IsCompareCase ==
    /\ IsTopExpr
    /\ TopExpr.kind = "BinaryOp"
    /\ TopExpr.name \in ComparisonOps
    /\ \A k \in 1..2 : TopExpr.args[k].kind = "Call" /\ TopExpr.args[k].args = <<>>

\* the body run on calls that return l and then r
Compared(l, r) == Execute(Machine(<<Ret32(l), Ret32(r)>>, ZeroFrame), BodyCode, 1)

\* the machine ran to the end of the lines with 1 or 0 in the accumulator,
\* as the relation holds or not
Materialised(m, holds) ==
    /\ ~m.fault /\ ~m.left
    /\ m.stack = <<>>
    /\ ReadReg(m, "rax") = Bytes(IF holds THEN 1 ELSE 0, 8)

\* C22: for each comparison operator on signed 32-bit operands the
\* emitted sequence runs to its end label on either path, and leaves 1 in the
\* accumulator when the relation holds between the value of the left operand
\* and the value of the right one, and 0 when it does not
C22_ComparisonMaterialised ==
    gen_pc = "returned" /\ IsCompareCase =>
        \A l \in Operands32, r \in Operands32 :
            Materialised(Compared(l, r), Holds(TopExpr.name, l, r))

\* a less-or-equal of the results of two calls has been compiled to the
\* seven lines after the operands
C22_Witness ==
    /\ gen_pc = "returned"
    /\ IsCompareCase
    /\ TopExpr.name = "<="
    /\ SubSeq(BodyCode, Len(BodyCode) - 6, Len(BodyCode))
         = ComparisonLines("<=", "cmp_true_0", "cmp_end_1")
    /\ Compared(-2147483647, 2147483647).calls # <<>>


-----------------------------------------------------------------------------
(* The instructions of the relaxed result *)

\* what assemble_code gives for each line with relaxation disabled
Unrelaxed ==
    GenerateScan(lines, 1,
                 [labels |-> Pass1Scan(lines, 1, [labels |-> NoLabels, addr |-> 0,
                                                  idx |-> 0, warn |-> <<>>]).labels,
                  addr |-> 0, idx |-> 0, code |-> <<>>, out |-> <<>>, diag |-> <<>>],
                 NoForms).out

\* C23: in the relaxed result every jump and call to a label defined in
\* the stream has an encoding, and the lines that have one are the lines that
\* have one when relaxation is disabled
C23_NoJumpOmitted ==
    RelaxedReturned =>
        \A i \in DOMAIN lines :
            /\ (IsLabelJumpOrCall(i) /\ DefsOf(TargetOf(i)) # {}) => Truthy(bytecodes[i])
            /\ Truthy(bytecodes[i]) <=> Truthy(Unrelaxed[i])


-----------------------------------------------------------------------------
(* The emitted lines in Assembler.assemble *)

\* the lines of the output without an encoding in Assembler.assemble
Rejected ==
    {k \in DOMAIN asm_lines :
        /\ asm_lines[k].kind = "instr"
        /\ ~Truthy(assemble_instr(asm_lines[k], NoLabels, NoForms, 0, 0))}

\* C24: every instruction line of a compiled program has a non-empty
\* encoding in Assembler.assemble
C24_EveryLineAssembles == gen_pc = "returned" => Rejected = {}


-----------------------------------------------------------------------------
(* Label names with upper-case letters *)

\* line i names the label of line d by the very name of its definition
NamesExactly(i, d) == IsLabelJumpOrCall(i) /\ d \in DefsOf(TargetOf(i))

\* C25: a jump or call whose operand is the name of a label of the
\* stream, letter for letter, is resolved to that label: the table of pass 1
\* holds the label under the name the lookup uses, and without relaxation the
\* jump carries the displacement to the label in the returned stream
C25_ExactNameResolved ==
    UniqueLabels =>
        \A i \in DOMAIN lines : \A d \in DOMAIN lines :
            NamesExactly(i, d) =>
                /\ Pass1Done =>
                     /\ Lower(TargetOf(i)) \in DOMAIN labels
                     /\ labels[Lower(TargetOf(i))] = LayoutAt(NoForms, d).addr
                /\ BothReturned =>
                     /\ Truthy(bytecodes[i])
                     /\ DispOf(bytecodes[i].bytes)
                          = OffsetOf(d) - (OffsetOf(i) + Len(bytecodes[i].bytes))

\* the same, for the streams whose label names are in lower case
C25_LowerCaseOnly == LowerCaseLabels => C25_ExactNameResolved


-----------------------------------------------------------------------------
(* Labels defined more than once *)

\* the first line that defines label n
FirstDef(n) == CHOOSE d \in DefsOf(n) : \A e \in DefsOf(n) : d <= e

\* the address the label recomputation has when it comes to line k
RecomputedAt(k) == Recompute(Prefix(k), jump_forms).addr

\* C26: a label holds the address of its first definition after pass 1
\* and after the label recomputation of every iteration, and without
\* relaxation every jump to it in the returned stream goes to its first
\* definition; for label names in lower case
C26_FirstDefinitionWins ==
    LowerCaseLabels =>
        \A n \in LabelNames :
            DefsOf(n) # {} =>
                /\ (pc \in {"relax", "final"} /\ iteration = 0) =>
                      labels[n] = LayoutAt(NoForms, FirstDef(n)).addr
                /\ Recomputed => labels[n] = RecomputedAt(FirstDef(n))
                /\ BothReturned =>
                      \A i \in DOMAIN lines :
                          (IsLabelJump(i) /\ TargetOf(i) = n) =>
                              DispOf(bytecodes[i].bytes)
                                = OffsetOf(FirstDef(n))
                                    - (OffsetOf(i) + Len(bytecodes[i].bytes))

\* the same, for streams that define no label twice
C26_WithoutDuplicates == UniqueLabels => C26_FirstDefinitionWins


-----------------------------------------------------------------------------
(* Comparisons of unsigned operands *)

\* values of 32 bits, as bytes: 0, 1, 2^31 - 1, 2^31, 2^32 - 1
Unsigned32 ==
    {<<0, 0, 0, 0>>, <<1, 0, 0, 0>>, <<255, 255, 255, 127>>, <<0, 0, 0, 128>>,
     <<255, 255, 255, 255>>}

\* the upper and the lower half of a value of 32 bits
UpperHalf(v) == v[3] + 256 * v[4]
LowerHalf(v) == v[1] + 256 * v[2]

\* l < r for the unsigned values the bytes stand for
UnsignedLess(l, r) ==
    \/ UpperHalf(l) < UpperHalf(r)
    \/ UpperHalf(l) = UpperHalf(r) /\ LowerHalf(l) < LowerHalf(r)

UnsignedHolds(op, l, r) ==
    CASE op = "<" -> UnsignedLess(l, r)
      [] op = "<=" -> ~UnsignedLess(r, l)
      [] op = ">" -> UnsignedLess(r, l)
      [] op = ">=" -> ~UnsignedLess(l, r)

\* the program is one relational comparison of the two unsigned locals
IsUnsignedCase ==
    /\ IsTopExpr
    /\ TopExpr.kind = "BinaryOp"
    /\ TopExpr.name \in RelationalOps
    /\ TopExpr.args = <<UnsignedL, UnsignedR>>

\* the body run on the frame with a = l and b = r
ComparedUnsigned(l, r) == Execute(Machine(<<>>, Frame(l \o r \o Zeros(8))), BodyCode, 1)

\* C27: each relational comparison of two u32 operands leaves 1 in the
\* accumulator when the relation holds between the operands read as
\* unsigned values, those from 2^31 on included, and 0 when it does not
C27_UnsignedRelations ==
    gen_pc = "returned" /\ IsUnsignedCase =>
        \A l \in Unsigned32, r \in Unsigned32 :
            Materialised(ComparedUnsigned(l, r), UnsignedHolds(TopExpr.name, l, r))

\* the same, for operands below 2^31
C27_BelowHalf ==
    gen_pc = "returned" /\ IsUnsignedCase =>
        \A l \in Unsigned32, r \in Unsigned32 :
            (l[4] < 128 /\ r[4] < 128) =>
                Materialised(ComparedUnsigned(l, r), UnsignedHolds(TopExpr.name, l, r))


-----------------------------------------------------------------------------
(* The targets of the jumps of the output *)

\* the jumps of the output: every line with a label operand but the calls
JumpLines ==
    {p \in DOMAIN asm_lines :
        /\ asm_lines[p].kind = "instr"
        /\ asm_lines[p].op # "call"
        /\ Len(asm_lines[p].args) = 1
        /\ asm_lines[p].args[1].t = "sym"}

\* the target of jump p has one definition in the output, and it is in the
\* part of the output that the function of the jump emitted
TargetInFunction(p) ==
    LET target == LabelLine(asm_lines[p].args[1].name)
    IN  /\ CountLines(target) = 1
        /\ \E i \in 1..Cardinality(BlankPositions) :
              p \in Segment(i) /\ CountIn(i, target) = 1

\* no two functions of the program have the same name
DistinctNames ==
    \A i \in DOMAIN program : \A j \in DOMAIN program :
        program[i].name = program[j].name => i = j

\* C28: in the output of every compile call, each label that a jump of an
\* if, a while, a break, a continue, a return or a comparison goes to is
\* defined once in the output, inside the function of the jump
C28_TargetsDefinedOnce ==
    gen_pc = "returned" => \A p \in JumpLines : TargetInFunction(p)

\* the same, for functions of distinct one-letter names compiled with an empty
\* loop stack
C28_CleanStart ==
    (gen_pc = "returned" /\ DistinctNames /\ loop_stack = <<>>
       /\ \A i \in DOMAIN program : program[i].name \in FuncNames)
        => \A p \in JumpLines : TargetInFunction(p)


-----------------------------------------------------------------------------
(* The definitions of the labels of the output *)

LabelDefs == {p \in DOMAIN asm_lines : asm_lines[p].kind = "label"}

\* C29: in the output of a compile of functions of pairwise distinct names no
\* label is defined twice: the labels of fresh_label differ from each other
\* and from the name and the epilog label of every function
C29_NoLabelTwice ==
    (gen_pc = "returned" /\ DistinctNames)
        => \A p \in LabelDefs : CountLines(asm_lines[p]) = 1

\* the same, when no function has a name the generator makes up for a label
C29_PlainNames ==
    (gen_pc = "returned" /\ DistinctNames
       /\ \A i \in DOMAIN program : program[i].name \in FuncNames)
        => \A p \in LabelDefs : CountLines(asm_lines[p]) = 1


-----------------------------------------------------------------------------
(* The pushes and pops of an expression *)

PushRax == Ins1("push", Reg("rax"))
PopRax == Ins1("pop", Reg("rax"))

\* the pushes of the first n lines that no pop of them has taken
Depth(code, n) ==
    Cardinality({k \in 1..n : code[k] = PushRax})
      - Cardinality({k \in 1..n : code[k] = PopRax})

\* as many pops as pushes, and no pop before its push
Nested(code) ==
    /\ Depth(code, Len(code)) = 0
    /\ \A n \in 0..Len(code) : Depth(code, n) >= 0

\* the push that the pop of line j takes: the last one before it at its depth
Match(code, j) ==
    CHOOSE i \in 1..(j - 1) :
        /\ code[i] = PushRax
        /\ Depth(code, i - 1) = Depth(code, j)
        /\ \A k \in (i + 1)..(j - 1) :
              code[k] = PushRax => Depth(code, k - 1) # Depth(code, j)

\* the machine after the first n lines: every call returns another value and
\* no byte of the frame is zero
CallResults == [k \in 1..8 |-> Ret32(k + 8)]
After(code, n) ==
    Execute(Machine(CallResults, Frame([k \in 1..16 |-> k])), SubSeq(code, 1, n), 1)

\* C30: the lines of a compiled expression have as many push rax as pop rax
\* and no pop before its push; run, they leave the stack as deep as it was,
\* and each pop puts in rax the value rax had at the push it matches
C30_PushPopNested ==
    gen_pc = "returned" /\ IsTopExpr =>
        /\ Nested(BodyCode)
        /\ ~After(BodyCode, Len(BodyCode)).fault
        /\ After(BodyCode, Len(BodyCode)).stack = <<>>
        /\ \A j \in DOMAIN BodyCode :
              BodyCode[j] = PopRax =>
                  After(BodyCode, j).reg["rax"]
                    = After(BodyCode, Match(BodyCode, j) - 1).reg["rax"]

\* a call whose second argument is a call of six arguments has been
\* compiled: seven pushes are open at the deepest point
C30_Witness ==
    /\ gen_pc = "returned"
    /\ IsTopExpr
    /\ TopExpr = Call("h", <<One, CallOf(6)>>)
    /\ \E n \in DOMAIN BodyCode : Depth(BodyCode, n) = 7

=============================================================================
